---- MODULE Spec2Model ----
(***************************************************************************)
(* A model of the DLMem delay-line computer (src/cpu2m3.js, with the       *)
(* stand-alone delay-line library of src/unnamed/part_000).                *)
(*                                                                         *)
(* A delay line is a record [mem, next, enableRefresh, phase]: mem is the  *)
(* array _memory (mem[1] is the read head, mem[Len] the write head), next  *)
(* is _nextBitToWrite, and phase counts the pulses the line has received,  *)
(* modulo its length.  phase is an observer: no operation of the program   *)
(* reads it; it is what "the physical rotation of the line" means in the   *)
(* properties below.                                                       *)
(*                                                                         *)
(* TLC's integers are 32 bits wide, so a 40-bit word is never an integer   *)
(* here: a word is a sequence of 40 bits, and where a property speaks of   *)
(* its value the value is carried as two 20-bit limbs <<hi, lo>>.          *)
(***************************************************************************)
EXTENDS Integers, Sequences, FiniteSets, TLC

VARIABLES
    line,     \* the delay line exercised on its own (SpecChan)
    kind,     \* which library the line belongs to: "zero" (cpu2m3.js) or "null" (part_000)
    obs,      \* what the caller of the line has seen and done (SpecChan)
    cpu,      \* the SimpleCPU object with its memories and registers
    sim,      \* runSimulation's own state: program, phase, cycle limit
    hist      \* observations of the last operation of the machine

vars == <<line, kind, obs, cpu, sim, hist>>

-----------------------------------------------------------------------------
(* Geometry *)

WORD_SIZE == 40
\* Number of words of main memory.  cpu2m3.js uses 256 (MEMORY_SIZE =
\* WORD_SIZE * 256); memdump.js uses 32.  The model keeps it small.
MemWords == 16
MEMORY_SIZE == WORD_SIZE * MemWords
NUM_DATA_BANKS == 16
WORDS_PER_BANK == 16

\* JavaScript's null, for _nextBitToWrite and for an empty cell
NULL == -1

Bit == {0, 1}

Zeros(n) == [i \in 1..n |-> 0]
Nulls(n) == [i \in 1..n |-> NULL]

RECURSIVE Iter(_, _, _, _)
\* for (i = from; i < to; i++) s = F(s, i).
\* The range is run as its first half and then its second half, in the loop's
\* order; the intermediate state is bound as the one element of a set, which
\* makes it a value, computed once, before the second half starts.
Iter(F(_, _), s, from, to) ==
    IF from >= to THEN s
    ELSE IF to = from + 1 THEN F(s, from)
    ELSE LET mid == from + ((to - from) \div 2)
         IN CHOOSE r \in {Iter(F, half, mid, to) : half \in {Iter(F, s, from, mid)}} : TRUE

-----------------------------------------------------------------------------
(* The delay line of cpu2m3.js *)

DelayLineMemory(size) ==
    [mem |-> Zeros(size), next |-> NULL, enableRefresh |-> TRUE, phase |-> 0]

\* the bit tick() returns: _memory[0] before the shift
HeadBit(ch) == ch.mem[1]

\* the choice with the refresh test made first: a scheduled bit is lost
\* while refresh is off
BitEnteringOffFirst(ch) ==
    IF ~ch.enableRefresh THEN 0
    ELSE IF ch.next # NULL THEN ch.next
    ELSE HeadBit(ch)

\* bitEnteringTheLine
BitEntering(ch) ==
    IF ch.next # NULL THEN ch.next
    ELSE IF ch.enableRefresh THEN HeadBit(ch)
    ELSE 0

\* tick that forgets to shift the cells
tickNoShift(ch) ==
    [ch EXCEPT !.mem = [@ EXCEPT ![Len(@)] = BitEntering(ch)],
               !.next = NULL,
               !.phase = (@ + 1) % Len(ch.mem)]

\* tick(): the line after one pulse (the returned bit is HeadBit of the line before)
tick(ch) ==
    [ch EXCEPT !.mem = Tail(@) \o <<BitEntering(ch)>>,
               !.next = NULL,
               !.phase = (@ + 1) % Len(ch.mem)]

\* write that takes a value that is no bit for a 1
writeCoercing(ch, bit) == [ch EXCEPT !.next = IF bit = 0 THEN 0 ELSE 1]

\* write that keeps the first scheduled bit
writeFirstWins(ch, bit) ==
    IF bit # 0 /\ bit # 1 THEN ch
    ELSE IF ch.next # NULL THEN ch
    ELSE [ch EXCEPT !.next = bit]

\* write(bit)
write(ch, bit) ==
    IF bit # 0 /\ bit # 1 THEN ch
    ELSE [ch EXCEPT !.next = bit]

\* clear()
clear(ch) == [ch EXCEPT !.mem = Zeros(Len(@)), !.next = NULL]

\* n pulses in a row with nothing scheduled between them:
\* for (let i = 0; i < n; i++) ch.tick()
tickN(ch, n) ==
    LET Pulse(c, i) == tick(c)
    IN Iter(Pulse, ch, 0, n)

-----------------------------------------------------------------------------
(* The delay line of part_000: cells start empty (null) *)

NullDelayLineMemory(size) ==
    [mem |-> Nulls(size), next |-> NULL, enableRefresh |-> TRUE, phase |-> 0]

\* bitToInject
NullBitToInject(ch) ==
    IF ch.next # NULL THEN ch.next
    ELSE IF ch.enableRefresh /\ HeadBit(ch) # NULL THEN HeadBit(ch)
    ELSE NULL

nullTick(ch) ==
    [ch EXCEPT !.mem = Tail(@) \o <<NullBitToInject(ch)>>,
               !.next = NULL,
               !.phase = (@ + 1) % Len(ch.mem)]

nullClear(ch) == [ch EXCEPT !.mem = Nulls(Len(@)), !.next = NULL]

\* the operations of whichever library the line under test belongs to
NewLine(k, size) == IF k = "zero" THEN DelayLineMemory(size) ELSE NullDelayLineMemory(size)
TickOf(k, ch) == IF k = "zero" THEN tick(ch) ELSE nullTick(ch)
ClearOf(k, ch) == IF k = "zero" THEN clear(ch) ELSE nullClear(ch)
\* what a pulse injects when nothing is scheduled and refresh is off
EmptyOf(k) == IF k = "zero" THEN 0 ELSE NULL

-----------------------------------------------------------------------------
(* SpecChan: one delay line driven by a caller                             *)
(*                                                                         *)
(* The caller is free to schedule writes, pulse, switch refresh and clear  *)
(* (mode "free").  It can also start one of two procedures the sources     *)
(* contain: letting the line circulate untouched ("run"), and the loader's *)
(* write / stabilise / read-back sequence ("writing", "waiting",           *)
(* "reading", "done").                                                     *)

MaxLen == 3        \* longest line exercised
MaxRevs == 2       \* revolutions observed while the line circulates

WriteArgs == {0, 1, 2}     \* 2 stands for any value that is not a bit

\* The bits the caller has asked to write since the last pulse: the first and
\* the latest of them (NULL when it asked for none)
NoWrites == [first |-> NULL, last |-> NULL]
Asked(w, v) ==
    IF v \notin Bit THEN w
    ELSE [first |-> IF w.first = NULL THEN v ELSE w.first, last |-> v]

Obs0 ==
    [mode |-> "free", op |-> "new", pre |-> <<>>, out |-> NULL,
     arg |-> NULL, sched |-> NoWrites, was |-> NoWrites,
     snap |-> <<>>, ticks |-> 0, outs |-> <<>>,
     word |-> <<>>, pos |-> 0, readBack |-> <<>>]

ChanInit ==
    /\ kind \in {"zero", "null"}
    /\ \E L \in 1..MaxLen : line = NewLine(kind, L)
    /\ obs = Obs0
    /\ cpu = <<>> /\ sim = <<>> /\ hist = <<>>

\* mainMemory.write(v)
ChWrite(v) ==
    /\ obs.mode = "free"
    /\ line' = write(line, v)
    /\ obs' = [obs EXCEPT !.op = "write", !.pre = line, !.arg = v,
                          !.sched = Asked(@, v)]
    /\ UNCHANGED <<kind, cpu, sim, hist>>

\* mainMemory.tick()
ChTick ==
    /\ obs.mode = "free"
    /\ line' = TickOf(kind, line)
    /\ obs' = [obs EXCEPT !.op = "tick", !.pre = line, !.out = HeadBit(line),
                          !.was = obs.sched, !.sched = NoWrites]
    /\ UNCHANGED <<kind, cpu, sim, hist>>

\* memory.enableRefresh = b
ChSetRefresh(b) ==
    /\ obs.mode = "free"
    /\ line.enableRefresh # b
    /\ line' = [line EXCEPT !.enableRefresh = b]
    /\ obs' = [obs EXCEPT !.op = "refresh", !.pre = <<>>]
    /\ UNCHANGED <<kind, cpu, sim, hist>>

\* mainMemory.clear()
ChClear ==
    /\ obs.mode = "free"
    /\ line' = ClearOf(kind, line)
    /\ obs' = [obs EXCEPT !.op = "clear", !.pre = <<>>, !.sched = NoWrites]
    /\ UNCHANGED <<kind, cpu, sim, hist>>

\* The caller decides to let the line circulate: refresh on, nothing scheduled
ChBeginRun ==
    /\ obs.mode = "free"
    /\ line.enableRefresh
    /\ line.next = NULL
    /\ obs' = [Obs0 EXCEPT !.mode = "run", !.op = "mark", !.snap = line.mem]
    /\ UNCHANGED <<line, kind, cpu, sim, hist>>

\* one pulse of the circulation
ChRunTick ==
    /\ obs.mode = "run"
    /\ obs.ticks < MaxRevs * Len(line.mem)
    /\ line' = TickOf(kind, line)
    /\ obs' = [obs EXCEPT !.op = "tick", !.pre = line, !.out = HeadBit(line),
                          !.was = NoWrites,
                          !.ticks = @ + 1, !.outs = Append(@, HeadBit(line))]
    /\ UNCHANGED <<kind, cpu, sim, hist>>

ChEndRun ==
    /\ obs.mode = "run"
    /\ obs' = [Obs0 EXCEPT !.op = "end"]
    /\ UNCHANGED <<line, kind, cpu, sim, hist>>

\* The loader starts: refresh is switched off before the first bit is written
ChBeginLoad(word) ==
    /\ obs.mode = "free"
    /\ Len(word) <= Len(line.mem)
    /\ line' = [line EXCEPT !.enableRefresh = FALSE]
    /\ obs' = [Obs0 EXCEPT !.mode = "writing", !.op = "refresh", !.word = word]
    /\ UNCHANGED <<kind, cpu, sim, hist>>

\* one iteration of the loader's loop: write(bit); tick().  After the last
\* bit refresh is switched on again.
ChLoadBit ==
    /\ obs.mode = "writing"
    /\ LET bit == obs.word[obs.pos + 1]
           last == obs.pos + 1 = Len(obs.word)
           after == TickOf(kind, write(line, bit))
       IN /\ line' = IF last THEN [after EXCEPT !.enableRefresh = TRUE] ELSE after
          /\ obs' = [obs EXCEPT !.op = "load", !.pos = IF last THEN 0 ELSE @ + 1,
                                !.mode = IF ~last THEN "writing"
                                         ELSE IF Len(obs.word) = Len(line.mem) THEN "reading"
                                         ELSE "waiting"]
    /\ UNCHANGED <<kind, cpu, sim, hist>>

\* one pulse of the stabilisation wait: size - programLengthInBits pulses in all
ChWaitTick ==
    /\ obs.mode = "waiting"
    /\ line' = TickOf(kind, line)
    /\ obs' = [obs EXCEPT !.op = "wait", !.pos = @ + 1,
                          !.mode = IF obs.pos + 1 = Len(line.mem) - Len(obs.word)
                                   THEN "reading" ELSE "waiting"]
    /\ UNCHANGED <<kind, cpu, sim, hist>>

\* one pulse of the read-back: readWord.push(tick())
ChReadBit ==
    /\ obs.mode = "reading"
    /\ line' = TickOf(kind, line)
    /\ obs' = [obs EXCEPT !.op = "read", !.readBack = Append(@, HeadBit(line)),
                          !.mode = IF Len(obs.readBack) + 1 = Len(obs.word)
                                   THEN "done" ELSE "reading"]
    /\ UNCHANGED <<kind, cpu, sim, hist>>

ChEndLoad ==
    /\ obs.mode = "done"
    /\ obs' = [Obs0 EXCEPT !.op = "end"]
    /\ UNCHANGED <<line, kind, cpu, sim, hist>>

BitWords(n) == UNION {[1..w -> Bit] : w \in 1..n}

ChanNext ==
    \/ \E v \in WriteArgs : ChWrite(v)
    \/ ChTick
    \/ \E b \in BOOLEAN : ChSetRefresh(b)
    \/ ChClear
    \/ ChBeginRun
    \/ ChRunTick
    \/ ChEndRun
    \/ \E word \in BitWords(MaxLen) : ChBeginLoad(word)
    \/ ChLoadBit
    \/ ChWaitTick
    \/ ChReadBit
    \/ ChEndLoad

SpecChan == ChanInit /\ [][ChanNext]_vars

-----------------------------------------------------------------------------
(* Properties of the delay line (SpecChan) *)

\* C1: a pulse returns the bit that was at the head, moves every other cell one
\* position toward the head, and puts at the tail the latest bit scheduled since
\* the previous pulse if there is one (the pulse clears it), otherwise the
\* returned bit if refresh is enabled, otherwise 0 (empty in the null-initialised
\* library); of several writes before one pulse only the last is injected.
C1_PulseShiftsAndInjects ==
    obs.op = "tick" =>
        LET old == obs.pre
            n == Len(old.mem)
        IN /\ obs.out = old.mem[1]
           /\ Len(line.mem) = n
           /\ \A i \in 1..(n - 1) : line.mem[i] = old.mem[i + 1]
           /\ line.mem[n] = IF obs.was.last # NULL THEN obs.was.last
                            ELSE IF old.enableRefresh THEN obs.out
                            ELSE EmptyOf(kind)
           /\ line.next = NULL

\* C1 witness: two different bits were scheduled before one pulse and the pulse
\* injected the second
C1_Witness ==
    /\ obs.op = "tick"
    /\ obs.mode = "free"
    /\ Len(line.mem) >= 2
    /\ obs.was.first # NULL
    /\ obs.was.first # obs.was.last
    /\ line.mem[Len(line.mem)] = obs.was.last
    /\ obs.pre.enableRefresh
    /\ obs.out # obs.was.last

\* C2: with refresh enabled and nothing scheduled, after every whole number of
\* revolutions the line holds its initial content cell for cell, and the bits
\* returned repeat with period L.
C2_RefreshRoundTrip ==
    obs.mode = "run" =>
        LET L == Len(line.mem) IN
        /\ (obs.ticks % L = 0 => line.mem = obs.snap)
        /\ Len(obs.outs) = obs.ticks
        /\ \A i \in 1..Len(obs.outs) :
              /\ i <= L => obs.outs[i] = obs.snap[i]
              /\ i > L => obs.outs[i] = obs.outs[i - L]

\* C2 witness: a line of mixed content has completed its second revolution
C2_Witness ==
    /\ obs.mode = "run"
    /\ Len(line.mem) >= 2
    /\ obs.ticks = 2 * Len(line.mem)
    /\ obs.snap[1] = 1
    /\ obs.snap[2] = 0

\* C3: a word written one bit per pulse with refresh disabled is returned bit for
\* bit, in the order written, by the W pulses that follow the L - W pulses issued
\* after refresh is enabled again.
C3_WriteReadFidelity ==
    obs.mode = "done" => obs.readBack = obs.word

\* C3 witness: a word of mixed bits, shorter than the line, has been read back
C3_Witness ==
    /\ obs.mode = "done"
    /\ Len(obs.word) >= 2
    /\ Len(line.mem) > Len(obs.word)
    /\ obs.word[1] = 1
    /\ obs.word[2] = 0
    /\ Len(obs.readBack) = Len(obs.word)

-----------------------------------------------------------------------------
(* Words and numbers *)

\* 2^20: the size of one limb of a 40-bit value
LIMB == 2 ^ 20


RECURSIVE BitsValue(_, _, _)
\* the number whose bits are b[from], b[from + 1], ..., b[to], least significant first
BitsValue(b, from, to) ==
    IF from > to THEN 0 ELSE b[from] + 2 * BitsValue(b, from + 1, to)

Reverse(b) == [i \in 1..Len(b) |-> b[Len(b) + 1 - i]]

\* bit i (0 = least significant) of a number the model can hold
NumBit(n, i) == IF i > 30 THEN 0 ELSE (n \div (2 ^ i)) % 2

\* a 32-bit operand and an 8-bit opcode as the 40 bits of (opcode << 32) | operand,
\* most significant first: the order in which the loader pulses them in
WordBits(opcode, operand) ==
    [k \in 1..WORD_SIZE |->
        IF k <= 8 THEN NumBit(opcode, 8 - k) ELSE NumBit(operand, WORD_SIZE - k)]

\* the value of a register, whose head cell holds the least significant bit, as
\* the limbs <<hi, lo>>: value = hi * 2^20 + lo
RegValue(reg) == <<BitsValue(reg.mem, 21, 40), BitsValue(reg.mem, 1, 20)>>

\* the register content that holds the value <<hi, lo>>
ValueBits(v) ==
    [k \in 1..WORD_SIZE |-> IF k <= 20 THEN NumBit(v[2], k - 1) ELSE NumBit(v[1], k - 21)]

-----------------------------------------------------------------------------
(* The CPU of cpu2m3.js *)

OPCODES ==
    [NOP |-> 0, LAI |-> 1, LBI |-> 2, ADD |-> 3, PRA |-> 4, NEG |-> 5, STO |-> 6,
     LDA |-> 7, SHL |-> 8, SHR |-> 9, RND |-> 10, MLA |-> 11, STC |-> 16,
     JMP |-> 17, JMPA |-> 27, JZA |-> 18, JNA |-> 19, COL |-> 20, STB |-> 21,
     LDB |-> 22, LDP |-> 23, STP |-> 24, LEA |-> 25, LEB |-> 26, AND |-> 27,
     ORR |-> 28, XOR |-> 29, MUL |-> 31, HLT |-> 15]

Mnemonics == DOMAIN OPCODES

\* new MemorySystem(numBanks, wordsPerBank, wordSize).banks
MemorySystem(numBanks, wordsPerBank, wordSize) ==
    [b \in 0..(numBanks - 1) |-> DelayLineMemory(wordsPerBank * wordSize)]

\* new SimpleCPU(memory, dataMemory), reset() included.  output is the console:
\* the values PRA has printed.  log is an observer: the alignments made during
\* the current step.
SimpleCPU(memory, dataMemory) ==
    [memory |-> clear(memory),
     banks |-> dataMemory,
     regA |-> DelayLineMemory(WORD_SIZE),
     regB |-> DelayLineMemory(WORD_SIZE),
     regS |-> DelayLineMemory(WORD_SIZE),
     regT |-> DelayLineMemory(WORD_SIZE),
     dataMemoryClocks |-> [b \in DOMAIN dataMemory |-> 0],
     pc |-> 0,
     baseAddress |-> 0,
     memoryClock |-> 0,
     totalTicks |-> 0,
     ir |-> Zeros(WORD_SIZE),
     state |-> "RUNNING",
     jumped |-> FALSE,
     output |-> <<>>,
     log |-> <<>>]

\* Number(this.ir >> (WORD_SIZE - 8))
OpcodeOf(ir) == BitsValue(Reverse(SubSeq(ir, 1, 8)), 1, 8)

\* bit i of this.ir & 0xFFFFFFFF
OperandBit(ir, i) == IF i < 32 THEN ir[WORD_SIZE - i] ELSE 0

\* Number(operand)
OperandOf(ir) == BitsValue(Reverse(SubSeq(ir, 9, WORD_SIZE)), 1, 32)

\* Number(operand >> 4n) and Number(operand & 0x0Fn)
BankIdOf(ir) == BitsValue(Reverse(SubSeq(ir, 9, WORD_SIZE - 4)), 1, 28)
WordIdOf(ir) == BitsValue(Reverse(SubSeq(ir, WORD_SIZE - 3, WORD_SIZE)), 1, 4)

NumWordsOf(c) == Len(c.memory.mem) \div WORD_SIZE

\* this.totalTicks++ (n times)
Counted(c, n) == [c EXCEPT !.totalTicks = @ + n]

\* wordDistance with the operands of the subtraction exchanged
WordDistanceBackwards(target, clock, numWords) == (clock - target + numWords) % numWords

\* (target - clock + numWords) % numWords
WordDistance(target, clock, numWords) == (target - clock + numWords) % numWords

\* One entry of the observer log.  ev "align": a wait has ended (from: the clock
\* before it, target: the word waited for, pulses: the pulses issued, phase0 and
\* phase: the line's pulse count modulo its length before and after, clock: the
\* clock after).  ev "done": the WORD_SIZE transfer pulses that follow have ended.
LogEntry(ev, ln, bankId, from, target, pulses, phase0, phase, clock) ==
    [ev |-> ev, line |-> ln, bank |-> bankId, from |-> from, target |-> target,
     pulses |-> pulses, phase0 |-> phase0, phase |-> phase, clock |-> clock]

\* The wait for a word of main memory: ticksToWait pulses, each counted, then
\* the clock is set to the target.
AlignMain(c, target) ==
    LET numWords == NumWordsOf(c)
        wordDistance == WordDistance(target, c.memoryClock, numWords)
        ticksToWait == wordDistance * WORD_SIZE
        mem == tickN(c.memory, ticksToWait)
    IN [c EXCEPT !.memory = mem,
                 !.totalTicks = @ + ticksToWait,
                 !.memoryClock = target,
                 !.log = Append(@, LogEntry("align", "main", 0, c.memoryClock, target,
                                            ticksToWait, c.memory.phase, mem.phase,
                                            target))]

RECURSIVE AlignBankLoop(_, _, _, _)
\* while (clock !== wordId) { WORD_SIZE pulses; clock = (clock + 1) % wordsPerBank }
\* as <<bank, clock, pulses issued>>; the pulsed bank is bound as the one
\* element of a set, which makes it a value before the next turn of the loop
AlignBankLoop(bank, clock, wordId, pulses) ==
    IF clock = wordId THEN <<bank, clock, pulses>>
    ELSE CHOOSE r \in {AlignBankLoop(pulsed, (clock + 1) % WORDS_PER_BANK, wordId,
                                     pulses + WORD_SIZE) :
                           pulsed \in {tickN(bank, WORD_SIZE)}} : TRUE

\* a wait that sets the clock of every bank, as if the banks shared one clock
AlignBankShared(c, bankId, wordId) ==
    LET r == AlignBankLoop(c.banks[bankId], c.dataMemoryClocks[bankId], wordId, 0)
    IN [c EXCEPT !.banks[bankId] = r[1],
                 !.dataMemoryClocks = [b \in DOMAIN @ |-> r[2]],
                 !.log = Append(@, LogEntry("align", "bank", bankId,
                                            c.dataMemoryClocks[bankId], wordId, r[3],
                                            c.banks[bankId].phase, r[1].phase, r[2]))]

\* The wait for a word of a data bank (the pulses are not counted in totalTicks)
AlignBank(c, bankId, wordId) ==
    LET r == AlignBankLoop(c.banks[bankId], c.dataMemoryClocks[bankId], wordId, 0)
    IN [c EXCEPT !.banks[bankId] = r[1],
                 !.dataMemoryClocks[bankId] = r[2],
                 !.log = Append(@, LogEntry("align", "bank", bankId,
                                            c.dataMemoryClocks[bankId], wordId, r[3],
                                            c.banks[bankId].phase, r[1].phase, r[2]))]

\* a transfer after which the bank's clock is left where it was
BankWordKept(c, bankId) == c

\* this.dataMemoryClocks[bankId] = (this.dataMemoryClocks[bankId] + 1) % wordsPerBank
BankWordDone(c, bankId) ==
    LET clock == (c.dataMemoryClocks[bankId] + 1) % WORDS_PER_BANK
    IN [c EXCEPT !.dataMemoryClocks[bankId] = clock,
                 !.log = Append(@, LogEntry("done", "bank", bankId,
                                            c.dataMemoryClocks[bankId], 0, WORD_SIZE,
                                            0, c.banks[bankId].phase, clock))]

\* this.memoryClock = (this.memoryClock + 1) % numWords
MainWordDone(c) ==
    LET clock == (c.memoryClock + 1) % NumWordsOf(c)
    IN [c EXCEPT !.memoryClock = clock,
                 !.log = Append(@, LogEntry("done", "main", 0, c.memoryClock, 0,
                                            WORD_SIZE, 0, c.memory.phase, clock))]

-----------------------------------------------------------------------------
(* execute(): one handler per opcode *)

\* a mask that lets the first bit through whatever the second
AndFirst(a, b) == a

\* an or that is 0 when both bits are 1
OrExclusive(a, b) == (a + b) % 2

And(a, b) == a * b
Or(a, b) == IF a + b > 0 THEN 1 ELSE 0
Xor(a, b) == (a + b) % 2

\* an uncaught TypeError: the exception leaves step() and runSimulation()
Crash(c) == [c EXCEPT !.state = "CRASHED"]

\* The LEA/LEB branch picks its register with the test written for LAI
LeaTarget(opcode) == IF opcode = OPCODES.LAI THEN "regA" ELSE "regB"
\* the LAI/LBI branch with its two registers exchanged
LaiTargetSwapped(opcode) == IF opcode = OPCODES.LAI THEN "regB" ELSE "regA"

LaiTarget(opcode) == IF opcode = OPCODES.LAI THEN "regA" ELSE "regB"

\* case LAI, LBI, LEA, LEB
LoadImmediate(c, opcode) ==
    LET lea == opcode = OPCODES.LEA \/ opcode = OPCODES.LEB
        target == IF lea THEN LeaTarget(opcode) ELSE LaiTarget(opcode)
        Body(r, i) ==
            tick(write(r, OperandBit(c.ir, IF lea THEN WORD_SIZE - 1 - i ELSE i)))
    IN Counted([c EXCEPT ![target] = Iter(Body, @, 0, WORD_SIZE)], WORD_SIZE)

\* one pulse of the copy of a register into a bank word
StoreBit(s, bankId, reg) ==
    [s EXCEPT !.banks[bankId] = tick(write(@, HeadBit(s[reg]))),
              ![reg] = tick(@)]

\* a pulse of STC that copies the register out and lets it recirculate
StoreClearKept(s, bankId) == StoreBit(s, bankId, "regA")

\* one pulse of STC: the register is rewritten with 0 as it is copied out
StoreClearBit(s, bankId) ==
    [s EXCEPT !.banks[bankId] = tick(write(@, HeadBit(s.regA))),
              !.regA = tick(write(@, 0))]

\* a load pulse in which the register only recirculates
LoadBitNoWrite(s, bankId, reg) ==
    [s EXCEPT ![reg] = tick(@),
              !.banks[bankId] = tick(@)]

\* one pulse of the copy of a bank word into a register
LoadBit(s, bankId, reg) ==
    [s EXCEPT ![reg] = tick(write(@, HeadBit(s.banks[bankId]))),
              !.banks[bankId] = tick(@)]

\* case STO, LDA, STC, STB, LDB
DataAccess(c, opcode) ==
    LET bankId == BankIdOf(c.ir)
        wordId == WordIdOf(c.ir)
        Sto(s, i) == StoreBit(s, bankId, "regA")
        Stb(s, i) == StoreBit(s, bankId, "regB")
        Stc(s, i) == StoreClearBit(s, bankId)
        Ldb(s, i) == LoadBit(s, bankId, "regB")
        Lda(s, i) == LoadBit(s, bankId, "regA")
    IN IF bankId >= NUM_DATA_BANKS THEN Crash(c)
       ELSE LET a == AlignBank(c, bankId, wordId)
                d == IF opcode = OPCODES.STO THEN Iter(Sto, a, 0, WORD_SIZE)
                     ELSE IF opcode = OPCODES.STB THEN Iter(Stb, a, 0, WORD_SIZE)
                     ELSE IF opcode = OPCODES.STC THEN Iter(Stc, a, 0, WORD_SIZE)
                     ELSE IF opcode = OPCODES.LDB THEN Iter(Ldb, a, 0, WORD_SIZE)
                     ELSE Iter(Lda, a, 0, WORD_SIZE)
            IN BankWordDone(d, bankId)

\* one pulse of LDP: const bit = memory.tick(); regA.write(bit); regA.tick()
LdpBit(s, i) ==
    [s EXCEPT !.regA = tick(write(@, HeadBit(s.memory))),
              !.memory = tick(@)]

\* one pulse of STP: memory.write(regA._memory[0]); regA.tick(); memory.tick()
StpBit(s, i) ==
    [s EXCEPT !.memory = tick(write(@, HeadBit(s.regA))),
              !.regA = tick(@)]

\* STP that leaves the refresh loop closed: nothing differs while every pulse
\* carries a write, so this is the handler with the writes lost
StpNoWrite(c) ==
    LET Body(s, i) == [s EXCEPT !.memory = tick(@), !.regA = tick(@)]
    IN Iter(Body, c, 0, WORD_SIZE)

\* the write phase of STP without the assignment that closes the refresh loop
StpRefreshLeftOff(c) ==
    Iter(StpBit, [c EXCEPT !.memory.enableRefresh = FALSE], 0, WORD_SIZE)

\* the write phase of STP, between the two assignments of enableRefresh
StpWrite(c) ==
    LET off == [c EXCEPT !.memory.enableRefresh = FALSE]
        w == Iter(StpBit, off, 0, WORD_SIZE)
    IN [w EXCEPT !.memory.enableRefresh = TRUE]

\* case LDP, STP
ProgAccess(c, opcode) ==
    LET a == AlignMain(c, OperandOf(c.ir))
        d == IF opcode = OPCODES.LDP THEN Iter(LdpBit, a, 0, WORD_SIZE)
             ELSE StpWrite(a)
    IN MainWordDone(d)

\* SHL that schedules its 0 and leaves it for a later pulse of A
ShlPending(c) == [c EXCEPT !.regA = write(@, 0)]

\* case SHL
Shl(c) == [c EXCEPT !.regA = tick(write(@, 0))]

\* case SHR
Shr(c) ==
    LET Out(s, i) == [s EXCEPT !.regS = tick(write(@, HeadBit(s.regA))),
                               !.regA = tick(@)]
        Back(s, i) == [s EXCEPT !.regA = tick(write(@, HeadBit(s.regS))),
                                !.regS = tick(@)]
        c1 == Iter(Out, [c EXCEPT !.regS = clear(@)], 0, WORD_SIZE)
        c2 == [c1 EXCEPT !.regA = tick(write(clear(@), 0))]
    IN Iter(Back, c2, 0, WORD_SIZE - 1)

\* case AND, ORR, XOR: regA.write(bitA op bitB); regA.tick(); regB.tick()
Logic(c, Op(_, _)) ==
    LET Body(s, i) ==
            [s EXCEPT !.regA = tick(write(@, Op(HeadBit(s.regA), HeadBit(s.regB)))),
                      !.regB = tick(@)]
    IN Iter(Body, c, 0, WORD_SIZE)

\* the sum bit with the carry left out
SumBitNoCarry(bitA, bitB, carry) == (bitA + bitB) % 2

\* sum % 2 and sum > 1 ? 1 : 0, for sum = bitA + bitB + carry
SumBit(bitA, bitB, carry) == (bitA + bitB + carry) % 2
CarryOut(bitA, bitB, carry) == IF bitA + bitB + carry > 1 THEN 1 ELSE 0

\* one pulse of the serial adder on A and B; s = [c, carry]
AddBit(s, i) ==
    LET bitA == HeadBit(s.c.regA)
        bitB == HeadBit(s.c.regB)
    IN [c |-> [s.c EXCEPT !.regA = tick(write(@, SumBit(bitA, bitB, s.carry))),
                          !.regB = tick(@)],
        carry |-> CarryOut(bitA, bitB, s.carry)]

\* case ADD
Add(c) == Iter(AddBit, [c |-> c, carry |-> 0], 0, WORD_SIZE).c

\* case MLA
Mla(c) ==
    LET Round(s, j) == Add(s)
    IN Iter(Round, c, 0, OperandOf(c.ir))

\* one pulse of MUL's inner adder, A = A + S; s = [c, carry]
MulAddBit(s, j) ==
    LET bitA == HeadBit(s.c.regA)
        bitS == HeadBit(s.c.regS)
    IN [c |-> Counted([s.c EXCEPT !.regA = tick(write(@, SumBit(bitA, bitS, s.carry))),
                                  !.regS = tick(@)], 1),
        carry |-> CarryOut(bitA, bitS, s.carry)]

\* one round of MUL's main loop
MulRound(s, i) ==
    LET r == [s EXCEPT !.regA = tick(@)]
        a == IF HeadBit(r.regB) = 1
             THEN Iter(MulAddBit, [c |-> r, carry |-> 0], 0, WORD_SIZE).c
             ELSE r
    IN [a EXCEPT !.regB = tick(write(@, 0))]

\* case MUL
Mul(c) ==
    LET Copy(s, i) == [s EXCEPT !.regS = tick(write(@, HeadBit(s.regA))),
                                !.regA = tick(@)]
        c1 == Iter(Copy, c, 0, WORD_SIZE)
        c2 == [c1 EXCEPT !.regA = clear(@)]
        c3 == Iter(MulRound, c2, 0, WORD_SIZE)
    IN [c3 EXCEPT !.regA = tick(@)]

\* case RND
Rnd(c) ==
    LET bitsToClear == OperandOf(c.ir)
        Body(s, i) ==
            [s EXCEPT !.regA = tick(write(@, IF i < bitsToClear THEN 0 ELSE HeadBit(@)))]
    IN Iter(Body, c, 0, WORD_SIZE)

\* case COL
Col(c) ==
    LET bankId == BankIdOf(c.ir)
        wordId == WordIdOf(c.ir)
        Fetch(s, i) ==
            Counted([s EXCEPT !.regS = tick(write(@, HeadBit(s.banks[bankId]))),
                              !.banks[bankId] = tick(@),
                              !.regA = tick(@),
                              !.regB = tick(@)], 1)
        Sum(s, i) ==
            LET bitA == HeadBit(s.c.regA)
                andResult == And(HeadBit(s.c.regS), HeadBit(s.c.regB))
            IN [c |-> Counted([s.c EXCEPT
                                  !.regA = tick(write(@, SumBit(bitA, andResult, s.carry))),
                                  !.regB = tick(@),
                                  !.regS = tick(@)], 1),
                carry |-> CarryOut(bitA, andResult, s.carry)]
    IN IF bankId >= NUM_DATA_BANKS THEN Crash(c)
       ELSE LET a == AlignBank(c, bankId, wordId)
                f == BankWordDone(Iter(Fetch, a, 0, WORD_SIZE), bankId)
            IN Iter(Sum, [c |-> f, carry |-> 0], 0, WORD_SIZE).c

\* NEG's first loop with the bit written back unchanged
NegInvertBitKept(r, i) == tick(write(r, HeadBit(r)))

\* one pulse of NEG's first loop: regB.write(regB._memory[0] == 0 ? 1 : 0)
NegInvertBit(r, i) == tick(write(r, IF HeadBit(r) = 0 THEN 1 ELSE 0))

\* one pulse of NEG's second loop; s = [r, carry]
NegIncrementBit(s, i) ==
    LET sum == HeadBit(s.r) + s.carry
    IN [r |-> tick(write(s.r, sum % 2)), carry |-> IF sum > 1 THEN 1 ELSE 0]

\* case NEG
Neg(c) ==
    LET inverted == Iter(NegInvertBit, c.regB, 0, WORD_SIZE)
    IN [c EXCEPT !.regB =
            Iter(NegIncrementBit, [r |-> inverted, carry |-> 1], 0, WORD_SIZE).r]

\* this.pc = this.baseAddress + Number(operand); this.jumped = true
JumpRelative(c) == [c EXCEPT !.pc = c.baseAddress + OperandOf(c.ir), !.jumped = TRUE]

\* case JMPA
JumpAbsolute(c) == [c EXCEPT !.pc = OperandOf(c.ir), !.jumped = TRUE]

\* for each of the WORD_SIZE bits: look at the head of A, pulse A, count the pulse
ScanA(c, Seen(_, _, _), start) ==
    LET Body(s, i) == [c |-> Counted([s.c EXCEPT !.regA = tick(@)], 1),
                       v |-> Seen(s.v, HeadBit(s.c.regA), i)]
    IN Iter(Body, [c |-> c, v |-> start], 0, WORD_SIZE)

\* a zero test that looks at the first bit of A only
JzaFirstBit(c) ==
    LET Seen(isZero, bit, i) == IF i = 0 THEN bit = 0 ELSE isZero
        r == ScanA(c, Seen, TRUE)
    IN IF r.v THEN JumpRelative(r.c) ELSE r.c

\* a sign test that takes the first bit that leaves A
JnaFirstBit(c) ==
    LET Seen(msb, bit, i) == IF i = 0 THEN bit ELSE msb
        r == ScanA(c, Seen, 0)
    IN IF r.v = 1 THEN JumpRelative(r.c) ELSE r.c

\* case JZA
Jza(c) ==
    LET Seen(isZero, bit, i) == IF bit = 1 THEN FALSE ELSE isZero
        r == ScanA(c, Seen, TRUE)
    IN IF r.v THEN JumpRelative(r.c) ELSE r.c

\* case JNA
Jna(c) ==
    LET Seen(msb, bit, i) == IF i = WORD_SIZE - 1 THEN bit ELSE msb
        r == ScanA(c, Seen, 0)
    IN IF r.v = 1 THEN JumpRelative(r.c) ELSE r.c

\* the conversion with the sign taken at bit 7, as for 8-bit words
FinalValueSignAtBit7(wordBuffer) ==
    LET signBit == wordBuffer[8]
        inv == [k \in 1..WORD_SIZE |-> 1 - wordBuffer[k]]
        lo1 == BitsValue(inv, 1, 20) + 1
    IN IF signBit = 1
       THEN [neg |-> TRUE, mag |-> <<BitsValue(inv, 21, 40) + (lo1 \div LIMB), lo1 % LIMB>>]
       ELSE [neg |-> FALSE,
             mag |-> <<BitsValue(wordBuffer, 21, 40), BitsValue(wordBuffer, 1, 20)>>]

\* finalValue of PRA from the bits of valA (least significant first), as
\* [neg, mag]: the printed number is mag[1] * 2^20 + mag[2], negated if neg
FinalValue(wordBuffer) ==
    LET signBit == wordBuffer[WORD_SIZE]
        inv == [k \in 1..WORD_SIZE |-> 1 - wordBuffer[k]]
        lo1 == BitsValue(inv, 1, 20) + 1
    IN IF signBit = 1
       THEN [neg |-> TRUE, mag |-> <<BitsValue(inv, 21, 40) + (lo1 \div LIMB), lo1 % LIMB>>]
       ELSE [neg |-> FALSE,
             mag |-> <<BitsValue(wordBuffer, 21, 40), BitsValue(wordBuffer, 1, 20)>>]

\* case PRA
Pra(c) ==
    LET Seen(buf, bit, i) == Append(buf, bit)
        r == ScanA(c, Seen, <<>>)
    IN [r.c EXCEPT !.output = Append(@, FinalValue(r.v))]

\* a default case that also moves on to the next word
HaltAdvancing(c) == [c EXCEPT !.state = "HALTED", !.pc = @ + 1]

\* case HLT, and the default case
Halt(c) == [c EXCEPT !.state = "HALTED"]

\* execute(): the switch, its cases in the order they are written
execute(c) ==
    LET opcode == OpcodeOf(c.ir) IN
    IF opcode \in {OPCODES.LAI, OPCODES.LBI, OPCODES.LEA, OPCODES.LEB}
        THEN LoadImmediate(c, opcode)
    ELSE IF opcode \in {OPCODES.STO, OPCODES.LDA, OPCODES.STC, OPCODES.STB, OPCODES.LDB}
        THEN DataAccess(c, opcode)
    ELSE IF opcode \in {OPCODES.LDP, OPCODES.STP} THEN ProgAccess(c, opcode)
    ELSE IF opcode = OPCODES.SHL THEN Shl(c)
    ELSE IF opcode = OPCODES.SHR THEN Shr(c)
    ELSE IF opcode = OPCODES.AND THEN Logic(c, And)
    ELSE IF opcode = OPCODES.ORR THEN Logic(c, Or)
    ELSE IF opcode = OPCODES.XOR THEN Logic(c, Xor)
    ELSE IF opcode = OPCODES.MUL THEN Mul(c)
    ELSE IF opcode = OPCODES.RND THEN Rnd(c)
    ELSE IF opcode = OPCODES.MLA THEN Mla(c)
    ELSE IF opcode = OPCODES.ADD THEN Add(c)
    ELSE IF opcode = OPCODES.COL THEN Col(c)
    ELSE IF opcode = OPCODES.NEG THEN Neg(c)
    ELSE IF opcode = OPCODES.JMP THEN JumpRelative(c)
    ELSE IF opcode = OPCODES.JMPA THEN JumpAbsolute(c)
    ELSE IF opcode = OPCODES.JZA THEN Jza(c)
    ELSE IF opcode = OPCODES.JNA THEN Jna(c)
    ELSE IF opcode = OPCODES.PRA THEN Pra(c)
    ELSE IF opcode = OPCODES.NOP THEN c
    ELSE Halt(c)

\* the fetch loop: fetchBuffer.push(this.memory.tick()); this.totalTicks++
FetchBit(s, i) ==
    [c |-> Counted([s.c EXCEPT !.memory = tick(@)], 1),
     buf |-> Append(s.buf, HeadBit(s.c.memory))]

\* step() below its first line: align, fetch, execute, advance
stepRunning(c) ==
    LET a == AlignMain([c EXCEPT !.log = <<>>], c.pc)
        f == Iter(FetchBit, [c |-> a, buf |-> <<>>], 0, WORD_SIZE)
        d == [MainWordDone(f.c) EXCEPT !.ir = f.buf]
        e == execute(d)
    IN IF e.state = "CRASHED" THEN e
       ELSE IF e.jumped THEN [e EXCEPT !.jumped = FALSE]
       ELSE IF e.state = "RUNNING" THEN [e EXCEPT !.pc = @ + 1]
       ELSE e

\* step() without its first line
stepUnguarded(c) == stepRunning(c)

\* step(): if (this.state !== 'RUNNING') return;
step(c) == IF c.state # "RUNNING" THEN c ELSE stepRunning(c)

-----------------------------------------------------------------------------
(* Arithmetic on 40-bit values carried as limbs, for the properties *)

\* (a + b) mod 2^40
AddMod(a, b) ==
    LET lo == a[2] + b[2]
        hi == a[1] + b[1] + (lo \div LIMB)
    IN <<hi % LIMB, lo % LIMB>>

\* (2^40 - b) mod 2^40
NegMod(b) ==
    IF b[2] = 0 THEN <<(LIMB - b[1]) % LIMB, 0>>
    ELSE <<LIMB - 1 - b[1], LIMB - b[2]>>

\* the four base-1024 digits of a value, least significant first
Digits(v) == <<v[2] % 1024, v[2] \div 1024, v[1] % 1024, v[1] \div 1024>>

\* (a * b) mod 2^40, by long multiplication on the digits
MulMod(a, b) ==
    LET x == Digits(a)
        y == Digits(b)
        r0 == x[1] * y[1]
        r1 == x[1] * y[2] + x[2] * y[1] + (r0 \div 1024)
        r2 == x[1] * y[3] + x[2] * y[2] + x[3] * y[1] + (r1 \div 1024)
        r3 == x[1] * y[4] + x[2] * y[3] + x[3] * y[2] + x[4] * y[1] + (r2 \div 1024)
    IN <<(r3 % 1024) * 1024 + (r2 % 1024), (r1 % 1024) * 1024 + (r0 % 1024)>>

-----------------------------------------------------------------------------
(* SpecALU: the register handlers of execute() on registers holding any      *)
(* values.  A machine is built as runSimulation builds it, A and B hold two  *)
(* values of AluValues, and up to MaxOps handlers run one after the other.   *)
(* sim remembers the values A and B started with (a0, b0), the handlers run  *)
(* (ops), and the values A and B held before the last of them (pa, pb).      *)

MaxOps == 2

AluValues ==
    {<<0, 0>>, <<0, 1>>, <<0, 2>>, <<0, 6>>, <<0, 7>>, <<0, 20>>, <<0, 121>>,
     <<0, LIMB - 1>>, <<1, 0>>, <<2 ^ 19, 0>>, <<2 ^ 19, 1>>, <<2 ^ 19 - 1, LIMB - 1>>,
     <<LIMB - 1, LIMB - 2>>, <<LIMB - 1, LIMB - 1>>}

AluOps == {"ADD", "NEG", "MUL", "AND", "ORR", "XOR"}

NewMachine ==
    SimpleCPU(DelayLineMemory(MEMORY_SIZE),
              MemorySystem(NUM_DATA_BANKS, WORDS_PER_BANK, WORD_SIZE))

AluInit ==
    /\ \E a \in AluValues, b \in AluValues :
          /\ cpu = [NewMachine EXCEPT !.regA.mem = ValueBits(a), !.regB.mem = ValueBits(b)]
          /\ sim = [mode |-> "alu", a0 |-> a, b0 |-> b, ops |-> <<>>,
                    pa |-> a, pb |-> b]
    /\ line = <<>> /\ kind = "" /\ obs = <<>> /\ hist = <<>>

\* this.ir holds the word of an instruction without operand; execute() runs
AluExec(op) ==
    /\ sim.mode = "alu"
    /\ Len(sim.ops) < MaxOps
    /\ cpu' = execute([cpu EXCEPT !.ir = WordBits(OPCODES[op], 0)])
    /\ sim' = [sim EXCEPT !.ops = Append(@, op),
                          !.pa = RegValue(cpu.regA), !.pb = RegValue(cpu.regB)]
    /\ UNCHANGED <<line, kind, obs, hist>>

AluNext == \E op \in AluOps : AluExec(op)

SpecALU == AluInit /\ [][AluNext]_vars

-----------------------------------------------------------------------------
(* Properties of the arithmetic handlers (SpecALU) *)

LastOp == IF sim.ops = <<>> THEN "" ELSE sim.ops[Len(sim.ops)]

\* C5: ADD leaves (a + b) mod 2^W in A, the same value whichever of the two
\* operands was in A, and leaves B equal to b.
C5_AddIsAdditionModulo ==
    LastOp = "ADD" =>
        /\ RegValue(cpu.regA) = AddMod(sim.pa, sim.pb)
        /\ RegValue(cpu.regA) = AddMod(sim.pb, sim.pa)
        /\ cpu.regB.mem = ValueBits(sim.pb)

\* C5 witness: an addition whose carry runs through all W bits and out
C5_Witness ==
    /\ sim.ops = <<"ADD">>
    /\ sim.a0 = <<LIMB - 1, LIMB - 1>>
    /\ sim.b0 = <<0, 2>>
    /\ RegValue(cpu.regA) = <<0, 1>>

C7_MulIsProductModulo ==
    LastOp = "MUL" => RegValue(cpu.regA) = MulMod(sim.pa, sim.pb)

\* C7 (what the code does): MUL leaves a * b in A whenever the product fits in
\* W bits, as for 6 * 121 = 726
C7_MulExactWhenProductFits ==
    LET a == sim.pa
        b == sim.pb
        Small(x, y) == x = 0 \/ y <= (LIMB - 1) \div x
        x1 == a[2] \div 1024
        x0 == a[2] % 1024
        y1 == b[2] \div 1024
        y0 == b[2] % 1024
        \* (a[2] * b[2]) \div 2^20, computed on 10-bit halves
        lowCarry == x1 * y1 + ((x1 * y0 + x0 * y1 + ((x0 * y0) \div 1024)) \div 1024)
        fits == /\ a[1] = 0 \/ b[1] = 0
                /\ Small(a[1], b[2])
                /\ Small(a[2], b[1])
                /\ a[1] * b[2] + a[2] * b[1] + lowCarry < LIMB
    IN (LastOp = "MUL" /\ fits) => RegValue(cpu.regA) = MulMod(a, b)

\* C7 failing input: 2^20 * 2^20 = 2^40 is 0 modulo 2^W, and MUL leaves 1 in A
C7_Witness ==
    /\ sim.ops = <<"MUL">>
    /\ sim.a0 = <<1, 0>>
    /\ sim.b0 = <<1, 0>>
    /\ MulMod(sim.a0, sim.b0) = <<0, 0>>
    /\ RegValue(cpu.regA) = <<0, 1>>

\* C7 demonstration pair: 6 * 121 = 726
C7_DemoPair ==
    /\ sim.ops = <<"MUL">>
    /\ sim.a0 = <<0, 6>>
    /\ sim.b0 = <<0, 121>>
    /\ RegValue(cpu.regA) = <<0, 726>>

-----------------------------------------------------------------------------
(* runSimulation(program): the assembler, the loader and the run loop *)

(* A source line is what line.split(':') and split(/[\s,]+/) make of it:     *)
(* label ("" when the line has no colon), op (the mnemonic in upper case, "" *)
(* when nothing follows the label) and args, the operand tokens.  A token is *)
(* a name (parseInt gives NaN for it) or a number (what parseInt gives).     *)
Num(n) == [isNum |-> TRUE, s |-> "", n |-> n]
Nam(str) == [isNum |-> FALSE, s |-> str, n |-> 0]
Line(label, op, args) == [label |-> label, op |-> op, args |-> args]

\* parts[k] ? parts[k] : '0'
Arg(ins, k) == IF k <= Len(ins.args) THEN ins.args[k] ELSE Num(0)

\* labelMap[name] is truthy: the name is mapped, and not to 0
Truthy(labelMap, name) == name \in DOMAIN labelMap /\ labelMap[name] # 0

\* labelMap[name] = index
Mapped(labelMap, name, index) ==
    [x \in DOMAIN labelMap \cup {name} |-> IF x = name THEN index ELSE labelMap[x]]

\* Pass 1, one line: a label that is already mapped (to a nonzero index) ends
\* the callback, instruction included; otherwise the label maps to the index of
\* the next instruction and the instruction part, if any, is pushed.
PassOneLine(s, ln) ==
    IF ln.label # "" /\ Truthy(s.labelMap, ln.label) THEN s
    ELSE LET lm == IF ln.label # ""
                   THEN Mapped(s.labelMap, ln.label, Len(s.instructions))
                   ELSE s.labelMap
         IN [labelMap |-> lm,
             instructions |-> IF ln.op # "" THEN Append(s.instructions, ln)
                              ELSE s.instructions]

\* Pass 1: originalLines.forEach
PassOne(lines) ==
    LET F(s, i) == PassOneLine(s, lines[i + 1])
    IN Iter(F, [labelMap |-> [x \in {} |-> 0], instructions |-> <<>>], 0, Len(lines))

\* bit i of the BigInt n (two's complement below zero), and of n << sh
BitOf(n, i) == IF n >= 0 THEN NumBit(n, i) ELSE 1 - NumBit((-n) - 1, i)
ShiftedBit(n, sh, i) == IF i < sh THEN 0 ELSE BitOf(n, i - sh)

JumpOps == {"JMP", "JMPA", "JNA", "JZA", "LDP", "STP"}
RelativeOps == {"JMP", "JNA", "JZA"}
DataOps == {"STO", "STB", "LDA", "LDB", "STC", "COL"}
ImmediateOps == {"LAI", "LBI", "RND", "MLA", "LEA", "LEB"}

\* !cpu.OPCODES[op]: the mnemonic is unknown, or its opcode is 0
NoOpcode(op) == op \notin Mnemonics \/ OPCODES[op] = 0

\* BigInt(parseInt(token)) throws a RangeError for a token that is no number
Throws(ins, labelMap) ==
    IF ins.op \in JumpOps \cup ImmediateOps
    THEN LET t == Arg(ins, 1) IN ~t.isNum /\ t.s \notin DOMAIN labelMap
    ELSE IF ins.op \in DataOps
    THEN (~Arg(ins, 1).isNum) \/ (~Arg(ins, 2).isNum)
    ELSE FALSE

\* the operand of a jump, program-memory or immediate instruction
OperandValue(ins, labelMap, programBaseAddress) ==
    LET t == Arg(ins, 1)
    IN IF t.isNum THEN t.n
       ELSE IF ins.op \in RelativeOps THEN labelMap[t.s]
       ELSE programBaseAddress + labelMap[t.s]

\* bit i of the operand part of instructionWord
AsmOperandBit(ins, labelMap, programBaseAddress, i) ==
    IF ins.op \in JumpOps \cup ImmediateOps
    THEN BitOf(OperandValue(ins, labelMap, programBaseAddress), i)
    ELSE IF ins.op \in DataOps
    THEN Or(ShiftedBit(Arg(ins, 1).n, 4, i), BitOf(Arg(ins, 2).n, i))
    ELSE 0

\* instructionWord = (opcode << (WORD_SIZE - 8)) | operand, as the bits
\* WORD_SIZE - 1 down to 0 that the load loop writes
InstructionWord(ins, labelMap, programBaseAddress) ==
    [k \in 1..WORD_SIZE |->
        Or(ShiftedBit(OPCODES[ins.op], WORD_SIZE - 8, WORD_SIZE - k),
           AsmOperandBit(ins, labelMap, programBaseAddress, WORD_SIZE - k))]

\* memory.write(bit); memory.tick(); initialTicks++
LoadPulse(s, i) ==
    [s EXCEPT !.memory = tick(write(@, s.word[i + 1])), !.initialTicks = @ + 1]

\* Pass 2, one instruction: skipped when it has no opcode, the whole run thrown
\* out of when an operand is no number, otherwise assembled and pulsed in
PassTwoLine(s, ins, labelMap, programBaseAddress) ==
    IF s.thrown \/ NoOpcode(ins.op) THEN s
    ELSE IF Throws(ins, labelMap) THEN [s EXCEPT !.thrown = TRUE]
    ELSE LET w == InstructionWord(ins, labelMap, programBaseAddress)
         IN Iter(LoadPulse, [s EXCEPT !.word = w, !.words = Append(@, w)], 0, WORD_SIZE)

\* The observer's view of main memory: the WORD_SIZE cells that are w words
\* behind the head when the clock says the head is at word clock
LogicalWord(mem, clock, w) ==
    LET numWords == Len(mem.mem) \div WORD_SIZE
        off == ((w - clock) % numWords) * WORD_SIZE
    IN SubSeq(mem.mem, off + 1, off + WORD_SIZE)

\* runSimulation up to "Starting Execution": both passes, the load with the
\* refresh loop open, the stabilisation wait and the setting of the CPU.
\* The result is the CPU and what the assembler made.
Assemble(c, lines) ==
    LET one == PassOne(lines)
        numInstructions == Len(one.instructions)
        numWords == NumWordsOf(c)
        programBaseAddress == numWords - numInstructions
        F(s, i) == PassTwoLine(s, one.instructions[i + 1], one.labelMap, programBaseAddress)
        two == Iter(F, [memory |-> [c.memory EXCEPT !.enableRefresh = FALSE],
                        initialTicks |-> 0, word |-> <<>>, words |-> <<>>,
                        thrown |-> FALSE],
                    0, numInstructions)
        ticksToWaitForData == MEMORY_SIZE - numInstructions * WORD_SIZE
        ready == tickN([two.memory EXCEPT !.enableRefresh = TRUE], ticksToWaitForData)
    IN [thrown |-> two.thrown,
        labelMap |-> one.labelMap,
        instructions |-> one.instructions,
        numInstructions |-> numInstructions,
        words |-> two.words,
        cpu |-> IF two.thrown THEN [c EXCEPT !.memory = two.memory]
                ELSE [c EXCEPT !.memory = ready,
                               !.baseAddress = programBaseAddress,
                               !.pc = programBaseAddress,
                               !.memoryClock = programBaseAddress,
                               !.totalTicks = two.initialTicks
                                              + IF ticksToWaitForData > 0
                                                THEN ticksToWaitForData ELSE 0]]

\* let cycleLimit = 40
CycleLimit == 40

MaxIdleSteps == 2      \* calls of step() made after the run loop has ended

-----------------------------------------------------------------------------
(* SpecCPU: runSimulation on the programs of Programs *)

(* sim holds the position in runSimulation (at: "source", "running",        *)
(* "finished", "thrown"), the program and what the assembler made of it, the *)
(* cycles left, and three observers: phase0 and clock0 (the pulse count and  *)
(* the clock of main memory when execution starts), placed (the words the    *)
(* loader left in main memory) and stp (per address, the last word an STP    *)
(* wrote there, <<>> if none).  data is the same observer for the data      *)
(* banks: per bank and word, the last word a store wrote there.  idle counts *)
(* the calls of step() made after the run loop has ended.  hist holds the    *)
(* CPU, stp and data before the last step.                                   *)

\* the program of the README: 20 - 7
NegAdd ==
    <<Line("", "LAI", <<Num(20)>>), Line("", "LBI", <<Num(7)>>), Line("", "NEG", <<>>),
      Line("", "ADD", <<>>), Line("", "PRA", <<>>), Line("", "HLT", <<>>)>>

\* the program at the end of cpu2m3.js
MulDemo ==
    <<Line("", "LBI", <<Num(121)>>), Line("", "LAI", <<Num(6)>>), Line("", "MUL", <<>>),
      Line("", "PRA", <<>>), Line("", "HLT", <<>>)>>

\* the Wheeler jump of the manual, without the subroutine's own work
Wheeler ==
    <<Line("", "LEB", <<Nam("RETURN_HERE")>>),
      Line("", "STB", <<Num(0), Num(0)>>),
      Line("", "LDA", <<Num(0), Num(0)>>),
      Line("", "JMP", <<Nam("SUB")>>),
      Line("RETURN_HERE", "", <<>>),
      Line("", "PRA", <<>>),
      Line("", "HLT", <<>>),
      Line("SUB", "STO", <<Num(0), Num(1)>>),
      Line("", "LDP", <<Nam("JUMP_TEMPLATE")>>),
      Line("", "LDB", <<Num(0), Num(1)>>),
      Line("", "ADD", <<>>),
      Line("", "STP", <<Nam("SLOT")>>),
      Line("SLOT", "JMPA", <<Num(0)>>),
      Line("JUMP_TEMPLATE", "JMPA", <<Num(0)>>)>>

\* STP of the value v over word a, then LDP of word b: v = 32 leaves the word
\* of PRA, v = 240 the word of HLT
StoreLoad(v, a, b) ==
    <<Line("", "LAI", <<Num(v)>>), Line("", "STP", <<Num(a)>>),
      Line("", "LDP", <<Num(b)>>), Line("", "PRA", <<>>), Line("", "HLT", <<>>)>>

\* STP over the instruction that follows it
StoreNext(v) ==
    <<Line("", "LAI", <<Num(v)>>), Line("", "STP", <<Nam("NEXT")>>),
      Line("NEXT", "HLT", <<>>), Line("", "PRA", <<>>), Line("", "HLT", <<>>)>>

\* a store to word w of bank b and a load from word w2 of the same bank
BankProgram(b, w, w2) ==
    <<Line("", "LAI", <<Num(5)>>), Line("", "STO", <<Num(b), Num(w)>>),
      Line("", "LBI", <<Num(3)>>), Line("", "STB", <<Num(b), Num(w2)>>),
      Line("", "LDA", <<Num(b), Num(w2)>>), Line("", "COL", <<Num(b), Num(w)>>),
      Line("", "PRA", <<>>), Line("", "HLT", <<>>)>>

\* a loop that counts A down from n to 0
CountDown(n) ==
    <<Line("", "LAI", <<Num(n)>>), Line("", "LBI", <<Num(1)>>), Line("", "NEG", <<>>),
      Line("LOOP", "JZA", <<Nam("END")>>), Line("", "ADD", <<>>),
      Line("", "JMP", <<Nam("LOOP")>>), Line("END", "PRA", <<>>), Line("", "HLT", <<>>)>>

\* a jump back to a store: the fetch and the store both wait past the end of
\* their lines
BackStore ==
    <<Line("", "LAI", <<Num(5)>>), Line("", "JMP", <<Nam("L")>>),
      Line("X", "STO", <<Num(0), Num(0)>>), Line("", "HLT", <<>>),
      Line("L", "STO", <<Num(0), Num(1)>>), Line("", "JMP", <<Nam("X")>>),
      Line("", "HLT", <<>>)>>

\* an absolute jump over a PRA
JumpAbs ==
    <<Line("", "LAI", <<Num(6)>>), Line("", "LBI", <<Num(3)>>),
      Line("J", "JMPA", <<Nam("END")>>), Line("", "PRA", <<>>),
      Line("END", "HLT", <<>>)>>

\* taken relative branches: forward to a label on its own line (JZA), forward
\* to a label on the instruction's line (JNA), backward to a label on the
\* instruction's line (JMP) and backward to a label on its own line (JMP)
Branches ==
    <<Line("", "LAI", <<Num(0)>>),
      Line("Z", "JZA", <<Nam("F1")>>),
      Line("", "HLT", <<>>),
      Line("B2", "", <<>>),
      Line("", "PRA", <<>>),
      Line("", "HLT", <<>>),
      Line("F1", "", <<>>),
      Line("", "LBI", <<Num(1)>>),
      Line("", "NEG", <<>>),
      Line("", "ADD", <<>>),
      Line("N", "JNA", <<Nam("F2")>>),
      Line("", "HLT", <<>>),
      Line("B1", "LAI", <<Num(9)>>),
      Line("K", "JMP", <<Nam("B2")>>),
      Line("F2", "JMP", <<Nam("B1")>>)>>

\* a NOP between two instructions
NopMid ==
    <<Line("", "LAI", <<Num(5)>>), Line("", "NOP", <<>>), Line("", "PRA", <<>>),
      Line("", "HLT", <<>>)>>

\* a backward jump to a label that stands before a NOP
NopJump ==
    <<Line("", "LAI", <<Num(1)>>), Line("L", "PRA", <<>>), Line("", "NOP", <<>>),
      Line("J", "JMP", <<Nam("L")>>)>>

\* a program that fills main memory: LAI 1, LAI 2, ..., HLT
Full ==
    [i \in 1..MemWords |->
        IF i = MemWords THEN Line("", "HLT", <<>>) ELSE Line("", "LAI", <<Num(i)>>)]

\* a mnemonic that is not in the table, between valid lines
UnknownOp ==
    <<Line("", "LAI", <<Num(5)>>), Line("", "FOO", <<>>), Line("", "PRA", <<>>),
      Line("", "HLT", <<>>)>>

\* an operand that is neither a label nor a number, after a valid line
BadOperand(op) ==
    <<Line("", "LAI", <<Num(5)>>), Line("", op, <<Nam("NOWHERE"), Num(0)>>),
      Line("", "PRA", <<>>), Line("", "HLT", <<>>)>>

\* the label L defined twice, the first time at instruction index k (0 or 1)
TwiceLabel(k) ==
    (IF k = 0 THEN <<>> ELSE <<Line("", "LBI", <<Num(4)>>)>>)
    \o <<Line("L", "LAI", <<Num(1)>>), Line("L", "LAI", <<Num(2)>>),
         Line("", "PRA", <<>>), Line("", "HLT", <<>>)>>

\* stores to (b, w) and (b2, w2), then loads of both, the other one first
RoundTrip(b, w, b2, w2) ==
    <<Line("", "LAI", <<Num(11)>>), Line("", "STO", <<Num(b), Num(w)>>),
      Line("", "LBI", <<Num(6)>>), Line("", "STB", <<Num(b2), Num(w2)>>),
      Line("", "LAI", <<Num(0)>>), Line("", "LDA", <<Num(b2), Num(w2)>>),
      Line("", "LDB", <<Num(b), Num(w)>>), Line("", "PRA", <<>>),
      Line("", "HLT", <<>>)>>

\* a load of the address part into A or B (op is LEA or LEB) over 6 and 3
LoadAddress(op) ==
    <<Line("", "LAI", <<Num(6)>>), Line("", "LBI", <<Num(3)>>),
      Line("E", op, <<Num(9)>>), Line("", "PRA", <<>>), Line("", "HLT", <<>>)>>

\* a jump to the next instruction, a JNA that is not taken and a jump to itself
JumpNear ==
    <<Line("", "LAI", <<Num(1)>>), Line("A", "JMP", <<Nam("B")>>),
      Line("B", "PRA", <<>>), Line("", "JNA", <<Nam("A")>>),
      Line("C", "JMP", <<Nam("C")>>)>>

\* a program that ends without a halt
NoHalt == <<Line("", "LAI", <<Num(5)>>), Line("", "PRA", <<>>)>>

\* word m stored in bank 1, then collated into a under the mask in B
Collate(a, m, mask) ==
    <<Line("", "LAI", <<Num(m)>>), Line("", "STO", <<Num(1), Num(2)>>),
      Line("", "LAI", <<Num(a)>>), Line("", "LBI", <<Num(mask)>>),
      Line("", "COL", <<Num(1), Num(2)>>), Line("", "PRA", <<>>), Line("", "HLT", <<>>)>>

\* v stored and cleared, A printed, the word loaded back and printed
StoreClear(v, b, w) ==
    <<Line("", "LAI", <<Num(v)>>), Line("", "STC", <<Num(b), Num(w)>>),
      Line("", "PRA", <<>>), Line("", "LDA", <<Num(b), Num(w)>>),
      Line("", "PRA", <<>>), Line("", "HLT", <<>>)>>

\* 0 - n, printed
NegPrint(n) ==
    <<Line("", "LBI", <<Num(n)>>), Line("", "NEG", <<>>), Line("", "ADD", <<>>),
      Line("", "PRA", <<>>), Line("", "HLT", <<>>)>>

\* the example program of the README
Readme ==
    <<Line("", "LAI", <<Num(20)>>), Line("", "LBI", <<Num(7)>>), Line("", "NEG", <<>>),
      Line("", "ADD", <<>>), Line("", "STO", <<Num(0), Num(1)>>),
      Line("", "LAI", <<Num(99)>>), Line("", "STO", <<Num(0), Num(2)>>),
      Line("", "LDA", <<Num(0), Num(1)>>), Line("", "PRA", <<>>),
      Line("", "LDA", <<Num(0), Num(2)>>), Line("", "SHL", <<>>), Line("", "PRA", <<>>),
      Line("", "HLT", <<>>)>>

\* a shift of the value v, printed
Shift(op, v) ==
    <<Line("", "LAI", <<Num(v)>>), Line("", op, <<>>), Line("", "PRA", <<>>),
      Line("", "HLT", <<>>)>>

Programs ==
    {[name |-> "negadd", lines |-> NegAdd],
     [name |-> "muldemo", lines |-> MulDemo],
     [name |-> "wheeler", lines |-> Wheeler],
     [name |-> "backstore", lines |-> BackStore],
     [name |-> "jumpabs", lines |-> JumpAbs],
     [name |-> "branches", lines |-> Branches],
     [name |-> "nopmid", lines |-> NopMid],
     [name |-> "nopjump", lines |-> NopJump],
     [name |-> "full", lines |-> Full],
     [name |-> "unknownop", lines |-> UnknownOp],
     [name |-> "readme", lines |-> Readme],
     [name |-> "jumpnear", lines |-> JumpNear],
     [name |-> "nohalt", lines |-> NoHalt]}
    \cup {[name |-> "badoperand", lines |-> BadOperand(op)] : op \in {"JMP", "LAI", "STO"}}
    \cup {[name |-> "collate", lines |-> Collate(v[1], v[2], v[3])] :
             v \in {<<LIMB - 1, 1, 1>>, <<6, 12, 10>>, <<2 ^ 30 + 5, 2 ^ 30 + 3, 2 ^ 30 + 6>>}}
    \cup {[name |-> "storeclear", lines |-> StoreClear(v, b, w)] :
             v \in {5, 2 ^ 30 + 1}, b \in {0, NUM_DATA_BANKS - 1}, w \in {0, 3}}
    \cup {[name |-> "twicelabel", lines |-> TwiceLabel(k)] : k \in {0, 1}}
    \cup {[name |-> "roundtrip", lines |-> RoundTrip(b, w, b2, w2)] :
             b \in {0, NUM_DATA_BANKS - 1}, w \in {0, 5, 16}, b2 \in {0, 1}, w2 \in {0, 15}}
    \cup {[name |-> "shift", lines |-> Shift(op, v)] :
             op \in {"SHL", "SHR"}, v \in {0, 1, 99, 2 ^ 30 + 1}}
    \cup {[name |-> "storeload", lines |-> StoreLoad(v, a, b)] :
             v \in {32, 240}, a \in {0, MemWords - 5, MemWords - 1}, b \in {0, MemWords - 1}}
    \cup {[name |-> "storenext", lines |-> StoreNext(v)] : v \in {32, 240, 5}}
    \cup {[name |-> "bank", lines |-> BankProgram(b, w, w2)] :
             b \in {0, NUM_DATA_BANKS - 1, NUM_DATA_BANKS}, w \in {0, 3}, w2 \in {0, 3, 15}}
    \cup {[name |-> "countdown", lines |-> CountDown(n)] : n \in {0, 3}}
    \cup {[name |-> "negprint", lines |-> NegPrint(n)] : n \in {1, 5}}
    \cup {[name |-> "loadaddress", lines |-> LoadAddress(op)] : op \in {"LEA", "LEB"}}

NoStp == [a \in 0..(MemWords - 1) |-> <<>>]
NoData == [b \in 0..(NUM_DATA_BANKS - 1) |-> [w \in 0..(WORDS_PER_BANK - 1) |-> <<>>]]

CpuInit ==
    /\ \E p \in Programs :
          sim = [mode |-> "cpu", at |-> "source", name |-> p.name, lines |-> p.lines,
                 labelMap |-> [x \in {} |-> 0], numInstructions |-> 0, words |-> <<>>,
                 instructions |-> <<>>,
                 cycleLimit |-> CycleLimit, phase0 |-> 0, clock0 |-> 0,
                 placed |-> NoStp, stp |-> NoStp, data |-> NoData, idle |-> 0]
    /\ cpu = NewMachine
    /\ hist = <<>>
    /\ line = <<>>
    /\ kind = ""
    /\ obs = <<>>

\* runSimulation, from its first line to "Starting Execution"
CpuLoad ==
    /\ sim.mode = "cpu"
    /\ sim.at = "source"
    /\ LET a == Assemble(cpu, sim.lines)
       IN /\ cpu' = a.cpu
          /\ sim' = [sim EXCEPT !.at = IF a.thrown THEN "thrown" ELSE "running",
                                !.labelMap = a.labelMap,
                                !.numInstructions = a.numInstructions,
                                !.words = a.words,
                                !.instructions = a.instructions,
                                !.phase0 = a.cpu.memory.phase,
                                !.clock0 = a.cpu.memoryClock,
                                !.placed = [w \in 0..(MemWords - 1) |->
                                              LogicalWord(a.cpu.memory, a.cpu.memoryClock, w)]]
    /\ UNCHANGED <<line, kind, obs, hist>>

\* the word an executed STP stores and the address it stores it at
StpDone(before, after) ==
    /\ after.state # "CRASHED"
    /\ OpcodeOf(after.ir) = OPCODES.STP
    /\ OperandOf(after.ir) < NumWordsOf(before)

\* the step has executed a store to a data bank that exists
StoreDone(after) ==
    /\ after.state # "CRASHED"
    /\ OpcodeOf(after.ir) \in {OPCODES.STO, OPCODES.STB, OPCODES.STC}
    /\ BankIdOf(after.ir) < NUM_DATA_BANKS

\* one turn of: while (cpu.state === 'RUNNING' && cycleLimit > 0) { cpu.step(); cycleLimit--; }
CpuStep ==
    /\ sim.mode = "cpu"
    /\ sim.at = "running"
    /\ cpu.state = "RUNNING"
    /\ sim.cycleLimit > 0
    /\ cpu' = step(cpu)
    /\ sim' = [sim EXCEPT !.at = IF cpu'.state = "CRASHED" THEN "thrown" ELSE @,
                          !.cycleLimit = IF cpu'.state = "CRASHED" THEN @ ELSE @ - 1,
                          !.stp = IF StpDone(cpu, cpu')
                                  THEN [@ EXCEPT ![OperandOf(cpu'.ir)] = cpu.regA.mem]
                                  ELSE @,
                          !.data = IF StoreDone(cpu') /\ OpcodeOf(cpu'.ir) = OPCODES.STB
                                   THEN [@ EXCEPT ![BankIdOf(cpu'.ir)][WordIdOf(cpu'.ir)] =
                                                      cpu.regB.mem]
                                   ELSE IF StoreDone(cpu')
                                   THEN [@ EXCEPT ![BankIdOf(cpu'.ir)][WordIdOf(cpu'.ir)] =
                                                      cpu.regA.mem]
                                   ELSE @]
    /\ hist' = <<[pre |-> cpu, stp |-> sim.stp, data |-> sim.data]>>
    /\ UNCHANGED <<line, kind, obs>>

\* a call of step() after the run loop has ended with the CPU halted
CpuStepAgain ==
    /\ sim.mode = "cpu"
    /\ sim.at = "finished"
    /\ cpu.state = "HALTED"
    /\ sim.idle < MaxIdleSteps
    /\ cpu' = step(cpu)
    /\ sim' = [sim EXCEPT !.idle = @ + 1]
    /\ hist' = <<[pre |-> cpu, stp |-> sim.stp, data |-> sim.data]>>
    /\ UNCHANGED <<line, kind, obs>>

\* the loop has ended: "SIMULATION FINISHED"
CpuFinish ==
    /\ sim.mode = "cpu"
    /\ sim.at = "running"
    /\ ~(cpu.state = "RUNNING" /\ sim.cycleLimit > 0)
    /\ sim' = [sim EXCEPT !.at = "finished"]
    /\ UNCHANGED <<line, kind, obs, cpu, hist>>

CpuNext ==
    \/ CpuLoad
    \/ CpuStep
    \/ CpuFinish
    \/ CpuStepAgain

SpecCPU == CpuInit /\ [][CpuNext]_vars

-----------------------------------------------------------------------------
(* Properties of the run (SpecCPU) *)

\* the words of the line an observer entry is about
LineWords(r) == IF r.line = "main" THEN MemWords ELSE WORDS_PER_BANK

\* The first bit of logical word r.clock is at the head of the line: the line
\* has turned, since its clock last said clock0 at pulse count phase0, by the
\* words from clock0 to r.clock (a data bank starts at pulse 0 with clock 0)
HeadAtClock(r) ==
    LET n == LineWords(r)
        phase0 == IF r.line = "main" THEN sim.phase0 ELSE 0
        clock0 == IF r.line = "main" THEN sim.clock0 ELSE 0
    IN (r.phase - phase0) % (n * WORD_SIZE) = ((r.clock - clock0) % n) * WORD_SIZE

\* C4: for every clock position c and target word t of a line of n words, the
\* wait issues ((t - c) mod n) * wordSize pulses, less than one revolution; then
\* the clock is t and word t is at the head; after the wordSize transfer pulses
\* the clock is (t + 1) mod n.  Main memory (fetch, LDP, STP) and data banks.
C4_AlignmentReachesTarget ==
    sim.mode = "cpu" =>
        \A i \in DOMAIN cpu.log :
            LET r == cpu.log[i]
                n == LineWords(r)
            IN (r.ev = "align" /\ r.from \in 0..(n - 1) /\ r.target \in 0..(n - 1)) =>
                  /\ r.pulses = ((r.target - r.from) % n) * WORD_SIZE
                  /\ r.pulses < n * WORD_SIZE
                  /\ (r.phase - r.phase0) % (n * WORD_SIZE) = r.pulses
                  /\ r.clock = r.target
                  /\ HeadAtClock(r)
                  /\ i + 1 \in DOMAIN cpu.log
                  /\ cpu.log[i + 1].ev = "done"
                  /\ cpu.log[i + 1].line = r.line
                  /\ cpu.log[i + 1].bank = r.bank
                  /\ cpu.log[i + 1].clock = (r.target + 1) % n
                  /\ cpu.log[i + 1].phase = (r.phase + WORD_SIZE) % (n * WORD_SIZE)
                  /\ HeadAtClock(cpu.log[i + 1])

\* C4 witness: one step whose fetch waited for a word behind the clock and
\* whose data access waited for a word behind the bank's clock
C4_Witness ==
    /\ sim.mode = "cpu"
    /\ \E i, j \in DOMAIN cpu.log :
          /\ cpu.log[i].ev = "align" /\ cpu.log[i].line = "main"
          /\ cpu.log[i].target < cpu.log[i].from
          /\ cpu.log[i].pulses = (MemWords - 4) * WORD_SIZE
          /\ cpu.log[j].ev = "align" /\ cpu.log[j].line = "bank"
          /\ cpu.log[j].from = 2 /\ cpu.log[j].target = 0
          /\ cpu.log[j].pulses = 14 * WORD_SIZE
          /\ cpu.dataMemoryClocks[0] = 1

Thirteen == [neg |-> FALSE, mag |-> <<0, 13>>]

\* C8: the program LAI 20; LBI 7; NEG; ADD; PRA; HLT, assembled, loaded and
\* run, prints exactly one value, the signed value 13, and the CPU then is HALTED.
C8_NegAddPrintsThirteen ==
    (sim.mode = "cpu" /\ sim.name = "negadd") =>
        /\ sim.at # "thrown"
        /\ cpu.output \in {<<>>, <<Thirteen>>}
        /\ cpu.state = "HALTED" => cpu.output = <<Thirteen>>
        /\ sim.at = "finished" => (cpu.state = "HALTED" /\ cpu.output = <<Thirteen>>)

\* C8 witness: the run of the program has finished with 13 printed
C8_Witness ==
    /\ sim.mode = "cpu"
    /\ sim.name = "negadd"
    /\ sim.at = "finished"
    /\ sim.cycleLimit = CycleLimit - 6
    /\ cpu.state = "HALTED"
    /\ cpu.output = <<Thirteen>>

\* the absolute address of a label of the loaded program
LabelAddress(name) == cpu.baseAddress + sim.labelMap[name]

\* the last step fetched its instruction at the address of the label
SteppedAt(name) ==
    /\ sim.mode = "cpu"
    /\ hist # <<>>
    /\ name \in DOMAIN sim.labelMap
    /\ hist[1].pre.pc = LabelAddress(name)

\* C9: in the Wheeler-jump program, once the subroutine has written the
\* composed word (JMPA 0 + the address of the return label) over its final
\* instruction with STP and has reached that instruction, the instruction
\* executed next is the one at the return label.
C9_WheelerJumpReturns ==
    (SteppedAt("SLOT") /\ sim.name = "wheeler" /\ hist[1].stp[LabelAddress("SLOT")] # <<>>)
        => cpu.pc = LabelAddress("RETURN_HERE")

\* C9 failing run: the final instruction was fetched as the word of
\* JMPA RETURN_HERE, and the program counter went on to the next word
C9_Witness ==
    /\ SteppedAt("SLOT")
    /\ sim.name = "wheeler"
    /\ cpu.ir = WordBits(OPCODES.JMPA, LabelAddress("RETURN_HERE"))
    /\ hist[1].stp[LabelAddress("SLOT")] = cpu.ir
    /\ cpu.state = "RUNNING"
    /\ cpu.pc = LabelAddress("SLOT") + 1
    /\ cpu.pc # LabelAddress("RETURN_HERE")

\* C10: after STP with an address a below the word count, logical word a of
\* main memory holds the bits of A in the order they leave A's head, every
\* other word is unchanged, A is unchanged, and every later fetch at pc = a
\* decodes the stored word, not the word the loader placed there.
C10_StpRewritesWord ==
    (sim.mode = "cpu" /\ hist # <<>>) =>
        LET pre == hist[1].pre
            a == OperandOf(cpu.ir)
        IN /\ StpDone(pre, cpu) =>
                /\ \A w \in 0..(MemWords - 1) :
                      LogicalWord(cpu.memory, cpu.memoryClock, w) =
                          IF w = a THEN pre.regA.mem
                          ELSE LogicalWord(pre.memory, pre.memoryClock, w)
                /\ cpu.regA = pre.regA
           /\ pre.pc \in 0..(MemWords - 1) =>
                cpu.ir = IF hist[1].stp[pre.pc] # <<>> THEN hist[1].stp[pre.pc]
                         ELSE sim.placed[pre.pc]

\* C10 witness: a step has fetched, at an address an earlier STP wrote, a word
\* that differs from the one the loader placed there
C10_Witness ==
    /\ sim.mode = "cpu"
    /\ hist # <<>>
    /\ hist[1].pre.pc \in 0..(MemWords - 1)
    /\ hist[1].stp[hist[1].pre.pc] # <<>>
    /\ hist[1].stp[hist[1].pre.pc] # sim.placed[hist[1].pre.pc]
    /\ cpu.ir = hist[1].stp[hist[1].pre.pc]
    /\ OpcodeOf(cpu.ir) = OPCODES.PRA
    /\ Len(cpu.output) = 1

\* the registers A, B, S and T are as they were before the last step
RegistersKept ==
    /\ cpu.regA = hist[1].pre.regA
    /\ cpu.regB = hist[1].pre.regB
    /\ cpu.regS = hist[1].pre.regS
    /\ cpu.regT = hist[1].pre.regT

\* C11: executing an assembled JMPA with operand x sets pc to x, so that the
\* next instruction fetched is the word at absolute address x, and changes no
\* register.
C11_JmpaSetsPc ==
    (SteppedAt("J") /\ sim.name = "jumpabs") =>
        /\ cpu.pc = LabelAddress("END")
        /\ RegistersKept

\* C11 failing run: the word of JMPA END was fetched and executed; A, which
\* held 6 with 3 in B, holds 2, and pc is at the PRA the jump was to skip
C11_Witness ==
    /\ SteppedAt("J")
    /\ sim.name = "jumpabs"
    /\ cpu.ir = WordBits(OPCODES.JMPA, LabelAddress("END"))
    /\ RegValue(hist[1].pre.regA) = <<0, 6>>
    /\ RegValue(cpu.regA) = <<0, 2>>
    /\ cpu.pc = LabelAddress("J") + 1
    /\ cpu.pc # LabelAddress("END")

\* the word at logical address a of main memory, as the observer sees it
WordAt(a) == LogicalWord(cpu.memory, cpu.memoryClock, a)

\* the word the assembler makes of instruction k (counted from 0)
WordOf(k) == InstructionWord(sim.instructions[k + 1], sim.labelMap, cpu.baseAddress)

\* the branch ins, executed with the registers of c, is taken
Taken(ins, c) ==
    \/ ins.op = "JMP"
    \/ ins.op = "JZA" /\ c.regA.mem = Zeros(WORD_SIZE)
    \/ ins.op = "JNA" /\ c.regA.mem[WORD_SIZE] = 1

\* the last step executed the word of instruction k, a relative branch to a
\* label that stands before an instruction, and the branch was taken
BranchTaken(k) ==
    LET ins == sim.instructions[k + 1]
        t == Arg(ins, 1)
    IN /\ ins.op \in RelativeOps
       /\ ~t.isNum
       /\ t.s \in DOMAIN sim.labelMap
       /\ sim.labelMap[t.s] < sim.numInstructions
       /\ cpu.state # "CRASHED"
       /\ cpu.ir = WordOf(k)
       /\ Taken(ins, hist[1].pre)

\* after the branch of instruction k: pc is baseAddress + the index of the
\* label, which the operand holds, and the word there is the labelled instruction
LandsOnLabel(k) ==
    LET index == sim.labelMap[Arg(sim.instructions[k + 1], 1).s]
    IN /\ OperandOf(cpu.ir) = index
       /\ cpu.pc = cpu.baseAddress + index
       /\ WordAt(cpu.pc) = WordOf(index)

\* C12: after a relative branch (JMP, a taken JZA or JNA) whose operand is a
\* label L, the instruction executed next is the instruction labelled L,
\* wherever L is defined and whether or not it shares a line with the
\* instruction: the operand is L's instruction index, pc is baseAddress + it.
C12_BranchReachesLabel ==
    (sim.mode = "cpu" /\ hist # <<>>) =>
        \A k \in 0..(sim.numInstructions - 1) : BranchTaken(k) => LandsOnLabel(k)

\* C12 (what the code does): the same, in a program of which the loader has
\* pulsed in every instruction
C12_BranchReachesLabelWhenAllLoaded ==
    (sim.mode = "cpu" /\ hist # <<>> /\ Len(sim.words) = sim.numInstructions) =>
        \A k \in 0..(sim.numInstructions - 1) : BranchTaken(k) => LandsOnLabel(k)

\* C12 failing run: JMP L of LAI 1; L: PRA; NOP; JMP L has been executed, pc is
\* baseAddress + 1, and the word there is LAI 1, not the PRA that L labels
C12_Witness ==
    /\ SteppedAt("J")
    /\ sim.name = "nopjump"
    /\ BranchTaken(3)
    /\ sim.labelMap["L"] = 1
    /\ cpu.pc = cpu.baseAddress + 1
    /\ WordAt(cpu.pc) = WordBits(OPCODES.LAI, 1)
    /\ WordOf(1) = WordBits(OPCODES.PRA, 0)

\* C12 run that agrees: the last of the four taken branches of Branches, a
\* backward JMP to a label that shares its line, has landed on its label
C12_BranchesReached ==
    /\ sim.name = "branches"
    /\ hist # <<>>
    /\ BranchTaken(12) /\ LandsOnLabel(12)

\* the source lines that hold an instruction, in order
SourceInstructions == SelectSeq(sim.lines, LAMBDA ln : ln.op # "")

\* every label of the source is defined once
LabelsOnce ==
    \A i, j \in DOMAIN sim.lines :
        (i # j /\ sim.lines[i].label # "") => sim.lines[i].label # sim.lines[j].label

\* the bank and word of a data instruction are numbers below 16
DataOperandsInRange(ins) ==
    ins.op \in DataOps =>
        /\ Arg(ins, 1).isNum /\ Arg(ins, 1).n < NUM_DATA_BANKS
        /\ Arg(ins, 2).isNum /\ Arg(ins, 2).n < WORDS_PER_BANK

\* every instruction of the source has a mnemonic of the table and operands
\* that are numbers in range or defined labels
ValidProgram ==
    /\ LabelsOnce
    /\ \A i \in DOMAIN SourceInstructions :
          /\ SourceInstructions[i].op \in Mnemonics
          /\ ~Throws(SourceInstructions[i], sim.labelMap)
          /\ DataOperandsInRange(SourceInstructions[i])

\* no line of the source is a NOP
NoNop == \A i \in DOMAIN SourceInstructions : SourceInstructions[i].op # "NOP"

\* the operand field of instruction ins as the instruction set defines it: a
\* number as written, a label as its index (relative branches) or its address,
\* a data operand as 16 * bank + word
EncodedOperand(ins, base) ==
    IF ins.op \in DataOps THEN WORDS_PER_BANK * Arg(ins, 1).n + Arg(ins, 2).n
    ELSE IF ins.op \notin JumpOps \cup ImmediateOps THEN 0
    ELSE IF Arg(ins, 1).isNum THEN Arg(ins, 1).n
    ELSE IF ins.op \in RelativeOps THEN sim.labelMap[Arg(ins, 1).s]
    ELSE base + sim.labelMap[Arg(ins, 1).s]

\* the 40-bit encoding of instruction k (counted from 0) of the source
Encoding(k) ==
    LET ins == SourceInstructions[k + 1]
    IN WordBits(OPCODES[ins.op], EncodedOperand(ins, MemWords - Len(SourceInstructions)))

\* main memory after the load: the program in the last n words, zeros below
ProgramImage ==
    LET n == Len(SourceInstructions)
        base == MemWords - n
    IN /\ 1 <= n /\ n <= MemWords
       /\ cpu.baseAddress = base
       /\ \A a \in 0..(MemWords - 1) :
             sim.placed[a] = IF a >= base THEN Encoding(a - base) ELSE Zeros(WORD_SIZE)

\* the last step was the first step of the run
FirstStep == hist # <<>> /\ sim.cycleLimit = CycleLimit - 1 /\ sim.idle = 0

\* the first step fetched instruction 0 at baseAddress
FetchedFirst ==
    FirstStep => (hist[1].pre.pc = cpu.baseAddress /\ cpu.ir = Encoding(0))

\* C13: after a program of n valid instructions (1 <= n <= wordCount) is
\* loaded, baseAddress is wordCount - n, logical word baseAddress + k holds the
\* encoding of instruction k for every k < n, every other word is zero, and the
\* first step fetches instruction 0.
C13_ProgramAtTopOfMemory ==
    (sim.mode = "cpu" /\ sim.at \in {"running", "finished"} /\ ValidProgram) =>
        (ProgramImage /\ FetchedFirst)

\* C13 (what the code does): the same for a program without a NOP line
C13_ProgramAtTopOfMemoryWithoutNop ==
    (sim.mode = "cpu" /\ sim.at \in {"running", "finished"} /\ ValidProgram /\ NoNop) =>
        (ProgramImage /\ FetchedFirst)

\* C13 failing run: LAI 5; NOP; PRA; HLT is loaded and stepped once; the word at
\* baseAddress is zero, LAI 5 is one word higher, and the step fetched the zero word
C13_Witness ==
    /\ sim.name = "nopmid"
    /\ ValidProgram
    /\ FirstStep
    /\ Len(SourceInstructions) = 4
    /\ cpu.baseAddress = MemWords - 4
    /\ sim.placed[cpu.baseAddress] = Zeros(WORD_SIZE)
    /\ sim.placed[cpu.baseAddress + 1] = WordBits(OPCODES.LAI, 5)
    /\ sim.placed[cpu.baseAddress + 3] = WordBits(OPCODES.HLT, 0)
    /\ Encoding(0) = WordBits(OPCODES.LAI, 5)
    /\ cpu.ir = Zeros(WORD_SIZE)

\* C13 run that agrees: a program of wordCount instructions fills the memory
C13_FullReached ==
    /\ sim.name = "full"
    /\ FirstStep
    /\ cpu.baseAddress = 0
    /\ ProgramImage
    /\ cpu.ir = Encoding(0)

\* C14: once the CPU state is HALTED, every later call of step() is a no-op:
\* no clock, register, memory, pc, tick count or output changes, and the state
\* stays HALTED.
C14_HaltedStepIsNoOp ==
    (sim.mode = "cpu" /\ hist # <<>> /\ hist[1].pre.state = "HALTED") =>
        /\ cpu = hist[1].pre
        /\ cpu.state = "HALTED"

\* C14 case: step() has been called twice on a CPU that HLT halted after a PRA
C14_Witness ==
    /\ sim.mode = "cpu"
    /\ sim.idle = 2
    /\ hist[1].pre.state = "HALTED"
    /\ OpcodeOf(cpu.ir) = OPCODES.HLT
    /\ cpu.output # <<>>
    /\ cpu.pc < MemWords

\* the opcode field of word ir is no opcode of the table
UnknownOpcode(ir) == OpcodeOf(ir) \notin {OPCODES[m] : m \in Mnemonics}

\* the observer's view of main memory of CPU c
MainWords(c) == [a \in 0..(MemWords - 1) |-> LogicalWord(c.memory, c.memoryClock, a)]

\* the observer's view of the data banks of CPU c
BankWords(c) ==
    [b \in 0..(NUM_DATA_BANKS - 1) |->
        [w \in 0..(WORDS_PER_BANK - 1) |->
            LogicalWord(c.banks[b], c.dataMemoryClocks[b], w)]]

\* C15: a fetched word whose opcode field matches no defined opcode sets the
\* state to HALTED, changes no register and no memory content beyond the
\* fetch itself, and does not advance pc.
C15_UnknownOpcodeHalts ==
    (sim.mode = "cpu" /\ hist # <<>> /\ hist[1].pre.state = "RUNNING"
        /\ cpu.state # "CRASHED" /\ UnknownOpcode(cpu.ir)) =>
        /\ cpu.state = "HALTED"
        /\ RegistersKept
        /\ MainWords(cpu) = MainWords(hist[1].pre)
        /\ cpu.banks = hist[1].pre.banks
        /\ cpu.dataMemoryClocks = hist[1].pre.dataMemoryClocks
        /\ cpu.output = hist[1].pre.output
        /\ cpu.pc = hist[1].pre.pc

\* C15 case: a running CPU with a value in A has fetched a word of unknown
\* opcode from inside memory and halted
C15_Witness ==
    /\ sim.mode = "cpu"
    /\ hist # <<>>
    /\ hist[1].pre.state = "RUNNING"
    /\ UnknownOpcode(cpu.ir)
    /\ cpu.state = "HALTED"
    /\ cpu.regA.mem # Zeros(WORD_SIZE)
    /\ cpu.pc < MemWords
    /\ cpu.memoryClock = (cpu.pc + 1) % MemWords

\* the source has a mnemonic that is not in the table, or an operand that is
\* neither a bound label nor a number
BadSource ==
    \E i \in DOMAIN SourceInstructions :
        \/ SourceInstructions[i].op \notin Mnemonics
        \/ Throws(SourceInstructions[i], sim.labelMap)

\* nothing of the program is in main memory and the run loop has not been entered
NothingLoadedOrRun ==
    /\ sim.words = <<>>
    /\ cpu.memory.mem = Zeros(MEMORY_SIZE)
    /\ sim.at = "thrown"
    /\ hist = <<>>

\* C16: a source with a mnemonic that is not in the opcode table, or with an
\* operand that is neither a bound label nor an integer literal, aborts
\* assembly before any loading: no instruction word of the program is pulsed
\* into main memory, and execution does not start.
C16_BadSourceLoadsNothing ==
    (sim.mode = "cpu" /\ sim.at # "source" /\ BadSource) => NothingLoadedOrRun

\* C16 failing run: LAI 5; FOO; PRA; HLT has three words in memory, has run,
\* printed 5 and halted
C16_Witness ==
    /\ sim.name = "unknownop"
    /\ BadSource
    /\ Len(sim.words) = 3
    /\ sim.words[1] = WordBits(OPCODES.LAI, 5)
    /\ sim.at = "finished"
    /\ cpu.state = "HALTED"
    /\ Len(cpu.output) = 1
    /\ cpu.output[1] = [neg |-> FALSE, mag |-> <<0, 5>>]

\* C16 second failing run: LAI 5; JMP NOWHERE, 0; PRA; HLT is thrown out of with
\* the word of LAI 5 already in the line
C16_PartialLoad ==
    /\ sim.name = "badoperand"
    /\ BadSource
    /\ sim.at = "thrown"
    /\ hist = <<>>
    /\ sim.words = <<WordBits(OPCODES.LAI, 5)>>
    /\ cpu.memory.mem # Zeros(MEMORY_SIZE)

\* C17: defining the same label twice is always detected, wherever the first
\* definition is bound (a label bound to instruction index 0 included), and
\* aborts assembly: no instruction of the program is assembled or loaded.
C17_DuplicateLabelAborts ==
    (sim.mode = "cpu" /\ sim.at # "source" /\ ~LabelsOnce) =>
        /\ sim.words = <<>>
        /\ sim.at \notin {"running", "finished"}

\* C17 failing run: L: LAI 1; L: LAI 2; PRA; HLT, whose first L is bound to
\* index 0, is assembled whole with L rebound to 1, loaded, run, and prints 2
C17_Witness ==
    /\ sim.name = "twicelabel"
    /\ ~LabelsOnce
    /\ sim.lines[1].label = "L"
    /\ sim.at = "finished"
    /\ sim.labelMap["L"] = 1
    /\ Len(sim.words) = 4
    /\ cpu.state = "HALTED"
    /\ cpu.output = <<[neg |-> FALSE, mag |-> <<0, 2>>]>>

\* C17 second failing run: LBI 4; L: LAI 1; L: LAI 2; PRA; HLT, whose first L is
\* bound to index 1: the second L line is dropped, the rest is loaded and run
C17_DetectedButLoaded ==
    /\ sim.name = "twicelabel"
    /\ ~LabelsOnce
    /\ sim.lines[1].label = ""
    /\ sim.at = "finished"
    /\ sim.labelMap["L"] = 1
    /\ Len(SourceInstructions) = 5
    /\ Len(sim.words) = 4
    /\ cpu.output = <<[neg |-> FALSE, mag |-> <<0, 1>>]>>

\* the last step executed a load from a data bank that exists
LoadDone(after) ==
    /\ after.state # "CRASHED"
    /\ OpcodeOf(after.ir) \in {OPCODES.LDA, OPCODES.LDB}
    /\ BankIdOf(after.ir) < NUM_DATA_BANKS

\* the register a data instruction copies from or to
DataRegister(ir) ==
    IF OpcodeOf(ir) \in {OPCODES.STB, OPCODES.LDB} THEN "regB" ELSE "regA"

\* the content of word (b, w) that the stores so far have left: the cells of
\* the register of the last store to it, zeros if there was none
LastStored(data, b, w) == IF data[b][w] = <<>> THEN Zeros(WORD_SIZE) ELSE data[b][w]

\* a load from (b, w) leaves in its register what was last stored at (b, w)
LoadReturnsStored ==
    (hist # <<>> /\ hist[1].pre.state = "RUNNING" /\ LoadDone(cpu)) =>
        cpu[DataRegister(cpu.ir)].mem =
            LastStored(hist[1].data, BankIdOf(cpu.ir), WordIdOf(cpu.ir))

\* STO and STB change word (b, w) of the data memory only, to the cells of the
\* source register, and leave the source register as it was
StoreChangesOneWord ==
    (hist # <<>> /\ hist[1].pre.state = "RUNNING" /\ StoreDone(cpu)
        /\ OpcodeOf(cpu.ir) \in {OPCODES.STO, OPCODES.STB}) =>
        LET b == BankIdOf(cpu.ir)
            w == WordIdOf(cpu.ir)
            reg == DataRegister(cpu.ir)
        IN /\ BankWords(cpu) = [BankWords(hist[1].pre) EXCEPT ![b][w] = hist[1].pre[reg].mem]
           /\ cpu[reg] = hist[1].pre[reg]

\* C18: after STO b,w or STB b,w with b < 16 and w < 16, a later LDA b,w or
\* LDB b,w loads exactly the W-bit value that was stored, whatever the bank's
\* clock was and whatever data-memory instructions on other words or banks ran
\* in between; the store changes only word (b,w) of the data memory and leaves
\* the source register unchanged.
C18_StoreLoadRoundTrip ==
    sim.mode = "cpu" => (LoadReturnsStored /\ StoreChangesOneWord)

\* C18 case: LDB 0,0 has brought back the 11 that STO 0,0 stored from A, after
\* STB 0,15 and LDA 0,15 on another word of the same bank, with 6 in B before
C18_Witness ==
    /\ sim.name = "roundtrip"
    /\ hist # <<>>
    /\ LoadDone(cpu)
    /\ OpcodeOf(cpu.ir) = OPCODES.LDB
    /\ BankIdOf(cpu.ir) = 0
    /\ WordIdOf(cpu.ir) = 0
    /\ hist[1].data[0][15] = ValueBits(<<0, 6>>)
    /\ hist[1].data[0][0] = ValueBits(<<0, 11>>)
    /\ RegValue(hist[1].pre.regB) = <<0, 6>>
    /\ RegValue(cpu.regB) = <<0, 11>>
    /\ hist[1].pre.dataMemoryClocks[0] = 0

\* the last step executed the word of instruction k, a data-memory instruction
DataExecuted(k) ==
    /\ hist # <<>>
    /\ hist[1].pre.state = "RUNNING"
    /\ sim.instructions[k + 1].op \in DataOps
    /\ ~Throws(sim.instructions[k + 1], sim.labelMap)
    /\ cpu.ir = WordOf(k)

\* the engine accessed the bank and the word that instruction k names in the
\* source, both of which exist
AccessedAsWritten(k) ==
    LET ins == sim.instructions[k + 1]
    IN /\ cpu.state # "CRASHED"
       /\ Arg(ins, 1).n < NUM_DATA_BANKS
       /\ Arg(ins, 2).n < WORDS_PER_BANK
       /\ BankIdOf(cpu.ir) = Arg(ins, 1).n
       /\ WordIdOf(cpu.ir) = Arg(ins, 2).n
       /\ \E i \in DOMAIN cpu.log : cpu.log[i].ev = "align" /\ cpu.log[i].line = "bank"
       /\ \A i \in DOMAIN cpu.log :
             (cpu.log[i].ev = "align" /\ cpu.log[i].line = "bank") =>
                 (cpu.log[i].bank = Arg(ins, 1).n /\ cpu.log[i].target = Arg(ins, 2).n)

\* C19: for every data-memory instruction assembled from MNEMONIC bank, word
\* and then executed, the bank and the word the engine accesses are the two
\* numbers written in the source, with bank < 16 and word < 16: the word
\* number occupies operand bits [3:0] only, the bank number bits [7:4] only,
\* and no executed data instruction addresses a bank that does not exist.
C19_DataAccessAsWritten ==
    sim.mode = "cpu" =>
        \A k \in 0..(Len(sim.instructions) - 1) : DataExecuted(k) => AccessedAsWritten(k)

\* C19 (what the code does): the same for the instructions whose bank and word
\* are below 16 in the source
C19_DataAccessAsWrittenInRange ==
    sim.mode = "cpu" =>
        \A k \in 0..(Len(sim.instructions) - 1) :
            (DataExecuted(k) /\ DataOperandsInRange(sim.instructions[k + 1]))
                => AccessedAsWritten(k)

\* C19 failing run: STO 0, 16 has been executed with 11 in A; the word is
\* encoded with operand 16, and the 11 is in word 0 of bank 1, bank 0 untouched
C19_Witness ==
    /\ sim.name = "roundtrip"
    /\ DataExecuted(1)
    /\ sim.instructions[2] = Line("", "STO", <<Num(0), Num(16)>>)
    /\ cpu.state = "RUNNING"
    /\ OperandOf(cpu.ir) = 16
    /\ BankIdOf(cpu.ir) = 1
    /\ WordIdOf(cpu.ir) = 0
    /\ BankWords(cpu)[1][0] = ValueBits(<<0, 11>>)
    /\ cpu.banks[0] = hist[1].pre.banks[0]

\* C19 second failing run: STO 16, 0 is executed and addresses bank 16
C19_NoSuchBank ==
    /\ sim.name = "bank"
    /\ DataExecuted(1)
    /\ sim.instructions[2] = Line("", "STO", <<Num(NUM_DATA_BANKS), Num(0)>>)
    /\ BankIdOf(cpu.ir) = NUM_DATA_BANKS
    /\ cpu.state = "CRASHED"
    /\ sim.at = "thrown"

\* the last step executed SHL
ShlExecuted ==
    /\ hist # <<>>
    /\ hist[1].pre.state = "RUNNING"
    /\ OpcodeOf(cpu.ir) = OPCODES.SHL

\* C20: SHL shifts the value of A left by one bit: for A holding v (as loaded
\* by LAI or LDA and as printed by PRA), after SHL A holds 2v mod 2^W, with 0
\* entering at the least significant bit; 99 becomes 198.
C20_ShlDoubles ==
    (sim.mode = "cpu" /\ ShlExecuted) =>
        /\ RegValue(cpu.regA) = AddMod(RegValue(hist[1].pre.regA), RegValue(hist[1].pre.regA))
        /\ cpu.regA.mem[1] = 0

\* C20 failing run: LAI 99; SHL has been executed and A holds 49
C20_Witness ==
    /\ sim.name = "shift"
    /\ ShlExecuted
    /\ RegValue(hist[1].pre.regA) = <<0, 99>>
    /\ RegValue(cpu.regA) = <<0, 49>>
    /\ cpu.regA.mem[WORD_SIZE] = 0

\* C20 second failing run: the example of the README prints 13 and then 49
C20_ReadmePrints ==
    /\ sim.name = "readme"
    /\ sim.at = "finished"
    /\ cpu.state = "HALTED"
    /\ cpu.output = <<[neg |-> FALSE, mag |-> <<0, 13>>], [neg |-> FALSE, mag |-> <<0, 49>>]>>

\* the last step executed SHR
ShrExecuted ==
    /\ hist # <<>>
    /\ hist[1].pre.state = "RUNNING"
    /\ OpcodeOf(cpu.ir) = OPCODES.SHR

\* floor(v / 2) of a value carried as limbs
HalfOf(v) == <<v[1] \div 2, (v[2] \div 2) + (v[1] % 2) * (LIMB \div 2)>>

\* C21: SHR performs a logical right shift of A by one bit: for A holding v
\* (as loaded by LAI or LDA and as printed by PRA), after SHR A holds
\* floor(v / 2), with 0 entering at the most significant bit.
C21_ShrHalves ==
    (sim.mode = "cpu" /\ ShrExecuted) =>
        /\ RegValue(cpu.regA) = HalfOf(RegValue(hist[1].pre.regA))
        /\ cpu.regA.mem[WORD_SIZE] = 0

\* C21 failing run: LAI 99; SHR has been executed and A holds 198, with the 0
\* entered at the least significant bit
C21_Witness ==
    /\ sim.name = "shift"
    /\ ShrExecuted
    /\ RegValue(hist[1].pre.regA) = <<0, 99>>
    /\ RegValue(cpu.regA) = <<0, 198>>
    /\ cpu.regA.mem[1] = 0

\* the last step executed PRA
PraExecuted ==
    /\ hist # <<>>
    /\ hist[1].pre.state = "RUNNING"
    /\ OpcodeOf(cpu.ir) = OPCODES.PRA

\* the two's-complement reading of the 40-bit value v: v below 2^39, v - 2^40
\* from there on, as a sign and a magnitude
SignedValue(v) ==
    IF v[1] >= LIMB \div 2 THEN [neg |-> TRUE, mag |-> NegMod(v)]
    ELSE [neg |-> FALSE, mag |-> v]

C22_PositiveAboveByte ==
    /\ PraExecuted
    /\ cpu.output # <<>>
    /\ cpu.output[Len(cpu.output)] = [neg |-> FALSE, mag |-> <<0, 198>>]

\* the last step executed a load-immediate instruction
ImmediateExecuted ==
    /\ hist # <<>>
    /\ hist[1].pre.state = "RUNNING"
    /\ OpcodeOf(cpu.ir) \in {OPCODES.LAI, OPCODES.LBI, OPCODES.LEA, OPCODES.LEB}

\* the register a load-immediate instruction names, and the other one
NamedRegister(opcode) == IF opcode \in {OPCODES.LAI, OPCODES.LEA} THEN "regA" ELSE "regB"
OtherRegister(opcode) == IF opcode \in {OPCODES.LAI, OPCODES.LEA} THEN "regB" ELSE "regA"

\* the operand, zero-extended to the word size, with bit 0 first
OperandLsbFirst(ir) == ValueBits(<<OperandOf(ir) \div LIMB, OperandOf(ir) % LIMB>>)

\* C23: each load-immediate instruction writes only its own register: LAI and
\* LEA replace the content of A and leave B unchanged, LBI and LEB replace the
\* content of B and leave A unchanged. LAI/LBI leave bit 0 of the operand at
\* the head (LSB first); LEA/LEB leave bit W-1 at the head (MSB first).
C23_ImmediateWritesOwnRegister ==
    (sim.mode = "cpu" /\ ImmediateExecuted) =>
        LET opcode == OpcodeOf(cpu.ir)
        IN /\ cpu[NamedRegister(opcode)].mem =
                 IF opcode \in {OPCODES.LAI, OPCODES.LBI} THEN OperandLsbFirst(cpu.ir)
                 ELSE Reverse(OperandLsbFirst(cpu.ir))
           /\ cpu[OtherRegister(opcode)] = hist[1].pre[OtherRegister(opcode)]

\* C23 (what the code does): the same for LAI, LBI and LEB
C23_ImmediateWritesOwnRegisterButLea ==
    (sim.mode = "cpu" /\ ImmediateExecuted /\ OpcodeOf(cpu.ir) # OPCODES.LEA) =>
        LET opcode == OpcodeOf(cpu.ir)
        IN /\ cpu[NamedRegister(opcode)].mem =
                 IF opcode \in {OPCODES.LAI, OPCODES.LBI} THEN OperandLsbFirst(cpu.ir)
                 ELSE Reverse(OperandLsbFirst(cpu.ir))
           /\ cpu[OtherRegister(opcode)] = hist[1].pre[OtherRegister(opcode)]

\* C23 failing run: LEA 9 over A = 6, B = 3 has left A at 6 and put the
\* operand, most significant bit first, in B
C23_Witness ==
    /\ sim.name = "loadaddress"
    /\ ImmediateExecuted
    /\ OpcodeOf(cpu.ir) = OPCODES.LEA
    /\ OperandOf(cpu.ir) = 9
    /\ RegValue(hist[1].pre.regB) = <<0, 3>>
    /\ RegValue(cpu.regA) = <<0, 6>>
    /\ cpu.regB.mem = Reverse(ValueBits(<<0, 9>>))

\* C23 run that agrees: LEB 9 has put the operand, most significant bit
\* first, in B and left A at 6
C23_LebReached ==
    /\ sim.name = "loadaddress"
    /\ ImmediateExecuted
    /\ OpcodeOf(cpu.ir) = OPCODES.LEB
    /\ RegValue(cpu.regA) = <<0, 6>>
    /\ cpu.regB.mem = Reverse(ValueBits(<<0, 9>>))
    /\ cpu.regB.mem[WORD_SIZE] = 1

RECURSIVE AlignPulses(_, _, _)
\* the pulses of the alignment waits on the lines in lns among the first n
\* entries of the log of a step
AlignPulses(log, lns, n) ==
    IF n = 0 THEN 0
    ELSE AlignPulses(log, lns, n - 1)
         + IF log[n].ev = "align" /\ log[n].line \in lns THEN log[n].pulses ELSE 0

\* the last step ran to its end
StepDone ==
    /\ hist # <<>>
    /\ hist[1].pre.state = "RUNNING"
    /\ cpu.state # "CRASHED"

\* C24: every pulse issued to wait for rotational alignment is added to the
\* cumulative tick counter: during any step, totalTicks grows by at least the
\* W fetch pulses plus all alignment pulses issued in that step, for alignment
\* of main memory and of data banks alike.
C24_AlignmentPulsesCounted ==
    (sim.mode = "cpu" /\ StepDone) =>
        cpu.totalTicks - hist[1].pre.totalTicks >=
            WORD_SIZE + AlignPulses(cpu.log, {"main", "bank"}, Len(cpu.log))

\* C24 (what the code does): the same for the alignment pulses of main memory
C24_MainAlignmentPulsesCounted ==
    (sim.mode = "cpu" /\ StepDone) =>
        cpu.totalTicks - hist[1].pre.totalTicks >=
            WORD_SIZE + AlignPulses(cpu.log, {"main"}, Len(cpu.log))

\* C24 failing run: a store has waited three words for its bank, and
\* totalTicks has grown by the fetch and the wait of main memory only
C24_Witness ==
    /\ sim.mode = "cpu"
    /\ StepDone
    /\ OpcodeOf(cpu.ir) \in {OPCODES.STO, OPCODES.STB}
    /\ AlignPulses(cpu.log, {"bank"}, Len(cpu.log)) = 3 * WORD_SIZE
    /\ cpu.banks[BankIdOf(cpu.ir)].phase
         = (hist[1].pre.banks[BankIdOf(cpu.ir)].phase + 4 * WORD_SIZE) % (WORDS_PER_BANK * WORD_SIZE)
    /\ cpu.totalTicks - hist[1].pre.totalTicks
         = WORD_SIZE + AlignPulses(cpu.log, {"main"}, Len(cpu.log))

\* C24 run that agrees: a step has waited for main memory twice, for its
\* fetch and for the word of an LDP or STP, and counted both waits
C24_MainWaitsReached ==
    /\ sim.mode = "cpu"
    /\ StepDone
    /\ OpcodeOf(cpu.ir) \in {OPCODES.LDP, OPCODES.STP}
    /\ cpu.log[1].pulses > 0
    /\ AlignPulses(cpu.log, {"main"}, Len(cpu.log)) > cpu.log[1].pulses
    /\ cpu.totalTicks - hist[1].pre.totalTicks
         = WORD_SIZE + AlignPulses(cpu.log, {"main"}, Len(cpu.log))

-----------------------------------------------------------------------------
(* The assembler and the decoder on one instruction (SpecAsm) *)

\* operand values, from 0 to the largest the model's numbers hold
AsmOperands == {0, 1, 9, 255, 65536, 2147483647}

\* the arguments that give an instruction of mnemonic op the operand field v:
\* one number, a bank and a word for the data-memory instructions, nothing for
\* the mnemonics that take no operand
ArgsFor(op, v) ==
    IF op \in DataOps THEN <<Num(v \div 16), Num(v % 16)>>
    ELSE IF op \in JumpOps \cup ImmediateOps THEN <<Num(v)>>
    ELSE <<>>

\* the operand field the source line op, ArgsFor(op, v) asks for
FieldFor(op, v) == IF op \in DataOps \cup JumpOps \cup ImmediateOps THEN v ELSE 0

AsmInit ==
    /\ \E op \in Mnemonics, v \in AsmOperands :
          sim = [mode |-> "asm", at |-> "source", op |-> op, v |-> v,
                 lines |-> <<Line("", op, ArgsFor(op, v))>>,
                 labelMap |-> [x \in {} |-> 0], numInstructions |-> 0,
                 words |-> <<>>, opcode |-> 0, operand |-> 0]
    /\ cpu = NewMachine
    /\ hist = <<>>
    /\ line = <<>>
    /\ kind = ""
    /\ obs = <<>>

\* runSimulation on the one-line source, up to "Starting Execution"
AsmAssemble ==
    /\ sim.mode = "asm"
    /\ sim.at = "source"
    /\ LET a == Assemble(cpu, sim.lines)
       IN /\ cpu' = a.cpu
          /\ sim' = [sim EXCEPT !.at = "assembled",
                                !.labelMap = a.labelMap,
                                !.numInstructions = a.numInstructions,
                                !.words = a.words]
    /\ UNCHANGED <<line, kind, obs, hist>>

\* the decoding of execute() applied to the word that the first fetch reads
AsmDecode ==
    /\ sim.mode = "asm"
    /\ sim.at = "assembled"
    /\ LET ir == LogicalWord(cpu.memory, cpu.memoryClock, cpu.pc)
       IN sim' = [sim EXCEPT !.at = "decoded",
                             !.opcode = OpcodeOf(ir),
                             !.operand = OperandOf(ir)]
    /\ UNCHANGED <<line, kind, obs, hist, cpu>>

AsmNext ==
    \/ AsmAssemble
    \/ AsmDecode

SpecAsm == AsmInit /\ [][AsmNext]_vars

\* one word was emitted for the line, with the opcode of the mnemonic in its
\* top 8 bits and the operand in its low 32, and it decodes to the two
EncodedAndDecoded ==
    /\ Len(sim.words) = 1
    /\ sim.words[1] = WordBits(OPCODES[sim.op], FieldFor(sim.op, sim.v))
    /\ sim.at = "decoded" =>
          /\ sim.opcode = OPCODES[sim.op]
          /\ sim.operand = FieldFor(sim.op, sim.v)

\* C25: for every mnemonic of the opcode table, NOP included, and every
\* operand value in [0, 2^32), the assembler emits exactly one W-bit word
\* whose top 8 bits are the mnemonic's opcode and whose low 32 bits are the
\* operand, and decoding that word returns the same opcode and operand.
C25_AssembleDecodeRoundTrip ==
    (sim.mode = "asm" /\ sim.at # "source") => EncodedAndDecoded

\* C25 (what the code does): the same for every mnemonic but NOP
C25_AssembleDecodeRoundTripButNop ==
    (sim.mode = "asm" /\ sim.at # "source" /\ sim.op # "NOP") => EncodedAndDecoded

\* C25 failing run: the line NOP has been assembled and no word was emitted
C25_Witness ==
    /\ sim.mode = "asm"
    /\ sim.at = "assembled"
    /\ sim.op = "NOP"
    /\ sim.numInstructions = 1
    /\ sim.words = <<>>
    /\ cpu.memory.mem = Zeros(MEMORY_SIZE)

\* C25 run that agrees: LAI 2147483647 is one word that decodes to LAI and
\* the operand
C25_LargestReached ==
    /\ sim.mode = "asm"
    /\ sim.at = "decoded"
    /\ sim.op = "LAI"
    /\ sim.v = 2147483647
    /\ sim.words = <<WordBits(OPCODES.LAI, 2147483647)>>
    /\ sim.opcode = OPCODES.LAI
    /\ sim.operand = 2147483647

-----------------------------------------------------------------------------
(* More properties of the delay line (SpecChan) *)

\* C26: write(v) with v other than 0 or 1 changes nothing: the cells, the
\* refresh flag and any already pending write are unchanged, and the next
\* pulse injects exactly what it would have injected without the call.
C26_NonBinaryWriteIgnored ==
    (obs # <<>> /\ obs.op = "write" /\ obs.arg \notin Bit) =>
        /\ line.mem = obs.pre.mem
        /\ line.enableRefresh = obs.pre.enableRefresh
        /\ line.next = obs.pre.next
        /\ TickOf(kind, line) = TickOf(kind, obs.pre)

\* C26 case: write(2) was called on a line with refresh off and a 1 pending
\* from an earlier write, and the 1 is still pending
C26_Witness ==
    /\ obs # <<>>
    /\ obs.op = "write"
    /\ obs.arg = 2
    /\ ~line.enableRefresh
    /\ obs.pre.next = 1
    /\ line.next = 1
    /\ Len(line.mem) = MaxLen
    /\ TickOf(kind, line).mem[MaxLen] = 1

-----------------------------------------------------------------------------
(* More properties of the run (SpecCPU) *)

\* the word the last step executed is the word of a JMPA line of the source
JmpaWord ==
    \E k \in 0..(Len(sim.instructions) - 1) :
        sim.instructions[k + 1].op = "JMPA" /\ cpu.ir = WordOf(k)

\* the word the last step executed is a JMP, or a JZA or JNA whose condition
\* held on the A of before the step
RelativeTaken ==
    LET opcode == OpcodeOf(cpu.ir)
    IN \/ opcode = OPCODES.JMP
       \/ opcode = OPCODES.JZA /\ hist[1].pre.regA.mem = Zeros(WORD_SIZE)
       \/ opcode = OPCODES.JNA /\ hist[1].pre.regA.mem[WORD_SIZE] = 1

\* pc after the step when every opcode is run by the handler of its number
PcAfter ==
    IF RelativeTaken THEN hist[1].pre.baseAddress + OperandOf(cpu.ir)
    ELSE IF OpcodeOf(cpu.ir) = OPCODES.HLT \/ UnknownOpcode(cpu.ir) THEN hist[1].pre.pc
    ELSE hist[1].pre.pc + 1

\* C27: after a step that starts RUNNING with pc = p: if the instruction is
\* JMP, JMPA or a taken JZA/JNA, pc equals the branch target (also when the
\* target is p or p + 1) and is not incremented; if the instruction is HLT or
\* unknown, pc stays p; in every other case pc = p + 1. The jumped flag is
\* false at the start of every step.
C27_PcAfterStep ==
    /\ sim.mode = "cpu" => ~cpu.jumped
    /\ (sim.mode = "cpu" /\ StepDone) =>
          cpu.pc = IF JmpaWord THEN OperandOf(cpu.ir) ELSE PcAfter

\* C27 (what the code does): the same, a JMPA word counted among "every
\* other case"
C27_PcAfterStepJmpaAsOther ==
    /\ sim.mode = "cpu" => ~cpu.jumped
    /\ (sim.mode = "cpu" /\ StepDone) => cpu.pc = PcAfter

\* C27 failing run: J: JMPA END has been executed and pc is J + 1, not END
C27_Witness ==
    /\ sim.name = "jumpabs"
    /\ StepDone
    /\ JmpaWord
    /\ hist[1].pre.pc = LabelAddress("J")
    /\ OperandOf(cpu.ir) = LabelAddress("END")
    /\ cpu.pc = hist[1].pre.pc + 1
    /\ cpu.pc # LabelAddress("END")

\* C27 runs that agree: a JMP whose target is its own address
C27_JumpToSelf ==
    /\ sim.name = "jumpnear"
    /\ StepDone
    /\ OpcodeOf(cpu.ir) = OPCODES.JMP
    /\ cpu.pc = hist[1].pre.pc
    /\ cpu.pc = LabelAddress("C")

\* ... and a JMP whose target is the next address
C27_JumpToNext ==
    /\ sim.name = "jumpnear"
    /\ StepDone
    /\ OpcodeOf(cpu.ir) = OPCODES.JMP
    /\ cpu.pc = hist[1].pre.pc + 1
    /\ cpu.pc = LabelAddress("B")

\* the content of logical word a of main memory by the record of the run: the
\* cells the last STP to a stored, else the word the loader left there
MainWordNow(a) == IF sim.stp[a] # <<>> THEN sim.stp[a] ELSE sim.placed[a]

\* the clock of main memory agrees with the rotation of the line: the line has
\* turned by whole words, as many as the clock has advanced since the run
\* began, and the word at the head is logical word memoryClock
MainClockAgrees ==
    /\ cpu.memoryClock \in 0..(MemWords - 1)
    /\ (cpu.memory.phase - sim.phase0) % MEMORY_SIZE
          = ((cpu.memoryClock - sim.clock0) % MemWords) * WORD_SIZE
    /\ SubSeq(cpu.memory.mem, 1, WORD_SIZE) = MainWordNow(cpu.memoryClock)

\* the same for data bank b, which starts at pulse 0 with its clock at 0
BankClockAgrees(b) ==
    /\ cpu.dataMemoryClocks[b] \in 0..(WORDS_PER_BANK - 1)
    /\ cpu.banks[b].phase = cpu.dataMemoryClocks[b] * WORD_SIZE
    /\ SubSeq(cpu.banks[b].mem, 1, WORD_SIZE) = LastStored(sim.data, b, cpu.dataMemoryClocks[b])

\* C28: at the start of every step the logical clocks agree with the physical
\* rotation: the bit at the head of main memory is the first bit of logical
\* word memoryClock, and for every data bank b the bit at its head is the
\* first bit of word dataMemoryClocks[b]; after any sequence of fetches,
\* jumps, LDP, STP, COL and data-memory loads and stores.
C28_ClocksAgreeWithRotation ==
    (sim.mode = "cpu" /\ sim.at \in {"running", "finished"} /\ cpu.state # "CRASHED") =>
        /\ MainClockAgrees
        /\ \A b \in 0..(NUM_DATA_BANKS - 1) : BankClockAgrees(b)

\* C28 case: in the Wheeler-jump program, after a jump, stores and loads on
\* bank 0, an LDP and the STP that rewrote a word, the clocks stand away from
\* where they began
C28_Witness ==
    /\ sim.name = "wheeler"
    /\ StepDone
    /\ OpcodeOf(cpu.ir) = OPCODES.STP
    /\ sim.stp[OperandOf(cpu.ir)] # <<>>
    /\ sim.stp[OperandOf(cpu.ir)] # sim.placed[OperandOf(cpu.ir)]
    /\ cpu.memoryClock # sim.clock0
    /\ cpu.dataMemoryClocks[0] = 2
    /\ sim.data[0][1] # <<>>
    /\ MainClockAgrees
    /\ BankClockAgrees(0)

\* C29: at the start of every step pc is a valid word index, 0 <= pc <
\* wordCount, for every loaded program and every operand of a relative or
\* absolute branch, also when execution runs past the last instruction.
C29_PcIsWordIndex ==
    (sim.mode = "cpu" /\ hist # <<>> /\ hist[1].pre.state = "RUNNING") =>
        hist[1].pre.pc \in 0..(MemWords - 1)

\* C29 failing run: LAI 5; PRA has run its two instructions and has begun a
\* step with pc = wordCount, which fetched word 0
C29_Witness ==
    /\ sim.name = "nohalt"
    /\ hist # <<>>
    /\ hist[1].pre.state = "RUNNING"
    /\ hist[1].pre.pc = MemWords
    /\ hist[1].pre.baseAddress + sim.numInstructions = MemWords
    /\ hist[1].pre.output = <<[neg |-> FALSE, mag |-> <<0, 5>>]>>
    /\ cpu.ir = sim.placed[0]
    /\ cpu.memoryClock = 1
    /\ cpu.pc = MemWords + 1

-----------------------------------------------------------------------------
(* The opcode table and the switch of execute() (SpecAsm) *)

\* the case labels of the switch of execute(), in the order they are written
SwitchOrder ==
    <<"LAI", "LBI", "LEA", "LEB", "STO", "LDA", "STC", "STB", "LDB", "LDP", "STP",
      "SHL", "SHR", "AND", "ORR", "XOR", "MUL", "RND", "MLA", "ADD", "COL", "NEG",
      "JMP", "JMPA", "JZA", "JNA", "PRA", "NOP", "HLT">>

\* the case label the switch selects for an opcode: the first one, in the
\* order written, whose value is the opcode ("default" if there is none)
CaseOf(opcode) ==
    LET hits == {i \in DOMAIN SwitchOrder : OPCODES[SwitchOrder[i]] = opcode}
    IN IF hits = {} THEN "default"
       ELSE SwitchOrder[CHOOSE i \in hits : \A j \in hits : i <= j]

\* no mnemonic outside the set except has the opcode of mnemonic op
DistinctFrom(op, except) ==
    \A m \in Mnemonics \ ({op} \cup except) : OPCODES[m] # OPCODES[op]

\* C30: the opcode table assigns pairwise-distinct 8-bit values to its
\* mnemonics, so for every mnemonic the handler that runs for its assembled
\* word is that mnemonic's own handler and no other.
C30_OwnHandler ==
    (sim.mode = "asm" /\ sim.at = "decoded" /\ sim.op # "NOP") =>
        /\ DistinctFrom(sim.op, {})
        /\ OPCODES[sim.op] \in 0..255
        /\ CaseOf(sim.opcode) = sim.op

\* C30 (what the code does): the same for every mnemonic but JMPA, whose
\* value is left out of the comparison
C30_OwnHandlerButJmpa ==
    (sim.mode = "asm" /\ sim.at = "decoded" /\ sim.op \notin {"NOP", "JMPA"}) =>
        /\ DistinctFrom(sim.op, {"JMPA"})
        /\ OPCODES[sim.op] \in 0..255
        /\ CaseOf(sim.opcode) = sim.op

\* C30 failing run: the word of JMPA 9 decodes to the opcode that AND has too,
\* and the switch selects case AND for it
C30_Witness ==
    /\ sim.mode = "asm"
    /\ sim.at = "decoded"
    /\ sim.op = "JMPA"
    /\ sim.v = 9
    /\ sim.words = <<WordBits(OPCODES.JMPA, 9)>>
    /\ sim.opcode = OPCODES.AND
    /\ ~DistinctFrom("JMPA", {})
    /\ CaseOf(sim.opcode) = "AND"

\* the opcodes of the instructions that access a data bank
DataOpcodes ==
    {OPCODES.STO, OPCODES.LDA, OPCODES.STC, OPCODES.STB, OPCODES.LDB, OPCODES.COL}

\* main memory after the step is main memory after the step's fetch alone:
\* the line has received the pulses of the wait and of the fetch with nothing
\* written, and the clock stands one word after pc
OnlyFetched ==
    /\ cpu.memory = tickN(hist[1].pre.memory, cpu.log[1].pulses + WORD_SIZE)
    /\ cpu.memoryClock = (hist[1].pre.pc + 1) % MemWords

\* C31: a data-memory instruction on bank b changes neither the content nor
\* the clock of any other bank, and changes neither the content nor the clock
\* of main memory; fetch, LDP and STP (and every other instruction) change no
\* data bank and no data-bank clock.
C31_BanksAndMainMemoryApart ==
    (sim.mode = "cpu" /\ StepDone) =>
        IF OpcodeOf(cpu.ir) \in DataOpcodes
        THEN /\ \A b \in 0..(NUM_DATA_BANKS - 1) \ {BankIdOf(cpu.ir)} :
                   /\ cpu.banks[b] = hist[1].pre.banks[b]
                   /\ cpu.dataMemoryClocks[b] = hist[1].pre.dataMemoryClocks[b]
             /\ OnlyFetched
        ELSE /\ cpu.banks = hist[1].pre.banks
             /\ cpu.dataMemoryClocks = hist[1].pre.dataMemoryClocks

\* C31 case: LDB on bank 15 has waited for its word and loaded it, while bank
\* 0 holds a stored word and stands at clock 1
C31_Witness ==
    /\ sim.name = "roundtrip"
    /\ StepDone
    /\ OpcodeOf(cpu.ir) = OPCODES.LDB
    /\ BankIdOf(cpu.ir) = NUM_DATA_BANKS - 1
    /\ \E i \in DOMAIN cpu.log :
          cpu.log[i].ev = "align" /\ cpu.log[i].line = "bank" /\ cpu.log[i].pulses > 0
    /\ cpu.regB # hist[1].pre.regB
    /\ cpu.dataMemoryClocks[0] = 1
    /\ sim.data[0][0] # <<>>
    /\ cpu.banks[0] = hist[1].pre.banks[0]

\* C31 case: an STP has rewritten a word of main memory while a bank holds a
\* stored word away from clock 0
C31_StpReached ==
    /\ sim.mode = "cpu"
    /\ StepDone
    /\ OpcodeOf(cpu.ir) = OPCODES.STP
    /\ MainWords(cpu) # MainWords(hist[1].pre)
    /\ cpu.dataMemoryClocks[0] # 0
    /\ cpu.banks[0].mem # Zeros(WORDS_PER_BANK * WORD_SIZE)

\* the step has run the instruction of the opcode
Executed(opcode) ==
    /\ sim.mode = "cpu"
    /\ StepDone
    /\ OpcodeOf(cpu.ir) = opcode

C32_NotTakenReached ==
    /\ Executed(OPCODES.JNA)
    /\ NumBit(RegValue(hist[1].pre.regA)[1], 19) = 0
    /\ NumBit(RegValue(hist[1].pre.regA)[2], 0) = 1
    /\ cpu.pc = hist[1].pre.pc + 1
    /\ cpu.pc # hist[1].pre.baseAddress + OperandOf(cpu.ir)

C33_NotTakenReached ==
    /\ Executed(OPCODES.JZA)
    /\ RegValue(hist[1].pre.regA) # <<0, 0>>
    /\ NumBit(RegValue(hist[1].pre.regA)[2], 0) = 0
    /\ cpu.pc = hist[1].pre.pc + 1
    /\ cpu.pc # hist[1].pre.baseAddress + OperandOf(cpu.ir)

RECURSIVE BitwiseNum(_, _, _)
\* the number whose bits are Op of the bits of x and y; Op(0, 0) = 0
BitwiseNum(Op(_, _), x, y) ==
    IF x = 0 /\ y = 0 THEN 0
    ELSE Op(x % 2, y % 2) + 2 * BitwiseNum(Op, x \div 2, y \div 2)

\* the bitwise Op of two W-bit values
Bitwise(Op(_, _), v, u) == <<BitwiseNum(Op, v[1], u[1]), BitwiseNum(Op, v[2], u[2])>>

\* the value of data word (b, w) of machine c, read as STO writes it
DataWord(c, b, w) ==
    LET bits == LogicalWord(c.banks[b], c.dataMemoryClocks[b], w)
    IN <<BitsValue(bits, 21, 40), BitsValue(bits, 1, 20)>>

\* C34: COL b,w leaves in A the value (a + (m AND B)) mod 2^W, where a is the
\* previous value of A and m the content of data word (b,w), and leaves B and
\* the data word (b,w) unchanged.
C34_ColAddsMaskedWord ==
    Executed(OPCODES.COL) =>
        LET pre == hist[1].pre
            b == BankIdOf(cpu.ir)
            w == WordIdOf(cpu.ir)
            m == DataWord(pre, b, w)
            Both(x, y) == IF x = 1 /\ y = 1 THEN 1 ELSE 0
        IN /\ RegValue(cpu.regA) =
                  AddMod(RegValue(pre.regA), Bitwise(Both, m, RegValue(pre.regB)))
           /\ RegValue(cpu.regB) = RegValue(pre.regB)
           /\ cpu.regB.mem = pre.regB.mem
           /\ DataWord(cpu, b, w) = m
           /\ BankWords(cpu)[b] = BankWords(pre)[b]

\* C34 case: COL has added a word under a mask that removes some of its bits,
\* with a carry from the low half of A into the high half
C34_Witness ==
    /\ Executed(OPCODES.COL)
    /\ sim.name = "collate"
    /\ RegValue(hist[1].pre.regA) = <<0, LIMB - 1>>
    /\ DataWord(hist[1].pre, 1, 2) = <<0, 1>>
    /\ RegValue(cpu.regA) = <<1, 0>>

\* C34 case: 6 + (12 AND 10) = 14
C34_MaskedReached ==
    /\ Executed(OPCODES.COL)
    /\ RegValue(hist[1].pre.regA) = <<0, 6>>
    /\ DataWord(hist[1].pre, 1, 2) = <<0, 12>>
    /\ RegValue(hist[1].pre.regB) = <<0, 10>>
    /\ RegValue(cpu.regA) = <<0, 14>>

\* C35: AND, ORR and XOR leave in A the bitwise and, or and exclusive-or of
\* the previous A and B over all W bit positions, and leave B unchanged.
C35_LogicIsBitwise ==
    LET Both(x, y) == IF x = 1 /\ y = 1 THEN 1 ELSE 0
        Either(x, y) == IF x = 1 \/ y = 1 THEN 1 ELSE 0
        Differ(x, y) == IF x # y THEN 1 ELSE 0
    IN /\ LastOp = "AND" => RegValue(cpu.regA) = Bitwise(Both, sim.pa, sim.pb)
       /\ LastOp = "ORR" => RegValue(cpu.regA) = Bitwise(Either, sim.pa, sim.pb)
       /\ LastOp = "XOR" => RegValue(cpu.regA) = Bitwise(Differ, sim.pa, sim.pb)
       /\ LastOp \in {"AND", "ORR", "XOR"} =>
             /\ RegValue(cpu.regB) = sim.pb
             /\ cpu.regB.mem = ValueBits(sim.pb)

\* C35 case: ORR over 2^39 + 1 and 6 has left 2^39 + 7 in A
C35_Witness ==
    /\ sim.mode = "alu"
    /\ sim.ops = <<"ORR">>
    /\ sim.a0 = <<2 ^ 19, 1>>
    /\ sim.b0 = <<0, 6>>
    /\ RegValue(cpu.regA) = <<2 ^ 19, 7>>

\* C35 case: AND over 2^40 - 2 and 121 has left 120 in A
C35_AndReached ==
    /\ sim.mode = "alu"
    /\ sim.ops = <<"AND">>
    /\ sim.a0 = <<LIMB - 1, LIMB - 2>>
    /\ sim.b0 = <<0, 121>>
    /\ RegValue(cpu.regA) = <<0, 120>>

\* C35 case: XOR over 2^40 - 1 and 2^39 + 1 has left 2^39 - 2 in A
C35_XorReached ==
    /\ sim.mode = "alu"
    /\ sim.ops = <<"XOR">>
    /\ sim.a0 = <<LIMB - 1, LIMB - 1>>
    /\ sim.b0 = <<2 ^ 19, 1>>
    /\ RegValue(cpu.regA) = <<2 ^ 19 - 1, LIMB - 2>>

\* the machine before the step after an STO with the operand of the word run
StoredAsSto ==
    DataAccess([hist[1].pre EXCEPT !.ir = WordBits(OPCODES.STO, OperandOf(cpu.ir))],
               OPCODES.STO)

\* C36: STC b,w stores the previous value of A into data word (b,w) exactly as
\* STO does and leaves A equal to 0 in all W bits.
C36_StcStoresAndClears ==
    Executed(OPCODES.STC) =>
        LET pre == hist[1].pre
            b == BankIdOf(cpu.ir)
            w == WordIdOf(cpu.ir)
        IN /\ DataWord(cpu, b, w) = RegValue(pre.regA)
           /\ \A u \in 0..(WORDS_PER_BANK - 1) \ {w} : DataWord(cpu, b, u) = DataWord(pre, b, u)
           /\ cpu.banks = StoredAsSto.banks
           /\ cpu.dataMemoryClocks = StoredAsSto.dataMemoryClocks
           /\ cpu.regA.mem = Zeros(WORD_SIZE)
           /\ cpu.regA.next = NULL

\* C36 case: STC has stored 2^30 + 1 from A into word 3 of the last bank and
\* A is 0
C36_Witness ==
    /\ Executed(OPCODES.STC)
    /\ RegValue(hist[1].pre.regA) = <<2 ^ 10, 1>>
    /\ DataWord(hist[1].pre, NUM_DATA_BANKS - 1, 3) = <<0, 0>>
    /\ DataWord(cpu, NUM_DATA_BANKS - 1, 3) = <<2 ^ 10, 1>>
    /\ RegValue(cpu.regA) = <<0, 0>>

\* C36 case: the program has printed 0 after the STC and 5 after the load
C36_PrintedReached ==
    /\ sim.mode = "cpu"
    /\ sim.name = "storeclear"
    /\ cpu.state = "HALTED"
    /\ cpu.output = <<[neg |-> FALSE, mag |-> <<0, 0>>], [neg |-> FALSE, mag |-> <<0, 5>>]>>

\* the delay lines of machine c: main memory, the data banks, the registers
Channels(c) ==
    {c.memory, c.regA, c.regB, c.regS, c.regT} \cup {c.banks[b] : b \in DOMAIN c.banks}

\* the load has ended in an exception: no step is ever run
LoadThrown == sim.at = "thrown" /\ hist = <<>>

\* a call of step() can follow: in the run loop, or after it on a halted CPU
StepStarts ==
    \/ sim.at = "running" /\ cpu.state = "RUNNING" /\ sim.cycleLimit > 0
    \/ sim.at = "finished" /\ cpu.state = "HALTED"

\* C37: refresh is disabled on main memory only during the loader's write
\* phase and during the W write pulses of STP: outside a load that an
\* exception has cut short, every channel has refresh enabled between the
\* calls, and in particular at the start of every step; no bank and no
\* register ever has refresh disabled.
C37_RefreshOnBetweenSteps ==
    sim.mode = "cpu" =>
        /\ \A ch \in Channels(cpu) \ {cpu.memory} : ch.enableRefresh
        /\ ~LoadThrown => cpu.memory.enableRefresh
        /\ StepStarts =>
              \A ch \in Channels(cpu) : ch.enableRefresh

\* C37 case: an STP has rewritten a word of main memory, refresh is enabled
\* again and the next step is about to start
C37_Witness ==
    /\ Executed(OPCODES.STP)
    /\ MainWords(cpu) # MainWords(hist[1].pre)
    /\ cpu.memory.enableRefresh
    /\ StepStarts

\* C37 case: the load is done, nothing has run, refresh is enabled
C37_LoadedReached ==
    /\ sim.mode = "cpu"
    /\ sim.at = "running"
    /\ hist = <<>>
    /\ MainWords(cpu) # [a \in 0..(MemWords - 1) |-> Zeros(WORD_SIZE)]
    /\ cpu.memory.enableRefresh

\* C38: at the end of every step, and after loading, no channel (main memory,
\* data bank or register) is left with a pending write: every write scheduled
\* by a handler is consumed by a pulse of the same channel inside that handler.
C38_NoPendingWrite ==
    sim.mode = "cpu" => \A ch \in Channels(cpu) : ch.next = NULL

\* C38 case: a step has run SHL, whose handler schedules one write on A, and A
\* has changed
C38_Witness ==
    /\ Executed(OPCODES.SHL)
    /\ cpu.regA.mem # hist[1].pre.regA.mem
    /\ cpu.regA.next = NULL

\* C38 case: the loader has written the program and the wait has run
C38_LoadedReached ==
    /\ sim.mode = "cpu"
    /\ sim.at = "running"
    /\ hist = <<>>
    /\ sim.name = "wheeler"
    /\ cpu.memory.mem # Zeros(MemWords * WORD_SIZE)
    /\ cpu.memory.next = NULL

\* C38 case: a step has run MUL, whose handler writes A, B, S and T
C38_MulReached ==
    /\ Executed(OPCODES.MUL)
    /\ cpu.regA.mem # hist[1].pre.regA.mem
    /\ \A ch \in Channels(cpu) : ch.next = NULL

-----------------------------------------------------------------------------
(* Immediate operands outside [0, 2^32): one source line of an immediate     *)
(* mnemonic with a negative number (parseInt reads the sign), assembled and  *)
(* decoded. The numbers from 2^32 up are beyond the model's integers.        *)

OutsideOperands == {-1, -2, -256, -65536, -2147483647}
InsideOperands == {0, 2147483647}

ImmInit ==
    /\ \E op \in ImmediateOps, v \in OutsideOperands \cup InsideOperands :
          sim = [mode |-> "imm", at |-> "source", op |-> op, v |-> v,
                 lines |-> <<Line("", op, <<Num(v)>>)>>,
                 labelMap |-> [x \in {} |-> 0], numInstructions |-> 0,
                 words |-> <<>>, opcode |-> 0, operand |-> <<>>]
    /\ cpu = NewMachine
    /\ line = <<>> /\ kind = "" /\ obs = <<>> /\ hist = <<>>

\* runSimulation up to "Starting Execution" on the one line
ImmAssemble ==
    /\ sim.mode = "imm"
    /\ sim.at = "source"
    /\ LET a == Assemble(cpu, sim.lines)
       IN /\ cpu' = a.cpu
          /\ sim' = [sim EXCEPT !.at = "assembled",
                                !.labelMap = a.labelMap,
                                !.numInstructions = a.numInstructions,
                                !.words = a.words]
    /\ UNCHANGED <<line, kind, obs, hist>>

\* the decoding of execute() applied to the word that the first fetch reads;
\* the operand field is kept as its 32 bits, most significant first
ImmDecode ==
    /\ sim.mode = "imm"
    /\ sim.at = "assembled"
    /\ LET ir == LogicalWord(cpu.memory, cpu.memoryClock, cpu.pc)
       IN sim' = [sim EXCEPT !.at = "decoded",
                             !.opcode = OpcodeOf(ir),
                             !.operand = SubSeq(ir, 9, WORD_SIZE)]
    /\ UNCHANGED <<line, kind, obs, hist, cpu>>

ImmNext ==
    \/ ImmAssemble
    \/ ImmDecode

SpecImm == ImmInit /\ [][ImmNext]_vars

\* the opcode field of the assembled word is the opcode of the mnemonic
OpcodeFieldKept ==
    /\ Len(sim.words) = 1
    /\ Len(sim.words[1]) = WORD_SIZE
    /\ \A k \in 1..WORD_SIZE : sim.words[1][k] \in {0, 1}
    /\ SubSeq(sim.words[1], 1, 8) = SubSeq(WordBits(OPCODES[sim.op], 0), 1, 8)
    /\ sim.at = "decoded" => sim.opcode = OPCODES[sim.op]

\* C39: an immediate operand written in the source outside [0, 2^32)
\* (negative, or 2^32 and above) never changes the opcode field: the assembled
\* word still lies in [0, 2^W) and its top 8 bits are the mnemonic's opcode.
C39_OutsideOperandKeepsOpcode ==
    (sim.mode = "imm" /\ sim.at # "source" /\ sim.v \notin 0..2147483647) =>
        OpcodeFieldKept

\* C39 (what the code does): the word is W bits; an operand inside the range
\* leaves the opcode field alone, a negative one fills it with ones, whatever
\* the mnemonic, and the word decodes to the opcode 255, which is no
\* instruction
C39_NegativeOperandFillsOpcode ==
    (sim.mode = "imm" /\ sim.at # "source") =>
        /\ Len(sim.words) = 1
        /\ Len(sim.words[1]) = WORD_SIZE
        /\ sim.v >= 0 => OpcodeFieldKept
        /\ sim.v < 0 =>
              /\ SubSeq(sim.words[1], 1, 8) = [k \in 1..8 |-> 1]
              /\ \A i \in 0..30 : sim.words[1][WORD_SIZE - i] = 1 - NumBit((-sim.v) - 1, i)
              /\ sim.at = "decoded" =>
                    /\ sim.opcode = 255
                    /\ sim.operand = SubSeq(sim.words[1], 9, WORD_SIZE)
                    /\ UnknownOpcode(LogicalWord(cpu.memory, cpu.memoryClock, cpu.pc))

\* C39 failing run: LAI -1 has been assembled into the word of 40 ones, which
\* decodes to opcode 255
C39_Witness ==
    /\ sim.mode = "imm"
    /\ sim.at = "decoded"
    /\ sim.op = "LAI"
    /\ sim.v = -1
    /\ sim.words = <<[k \in 1..WORD_SIZE |-> 1]>>
    /\ sim.opcode = 255
    /\ sim.opcode # OPCODES.LAI

-----------------------------------------------------------------------------
(* SpecExample: runExample of the null-initialised library, for every word  *)
(* of its word size in place of wordToWrite                                  *)

\* const WORD_SIZE = 8 of runExample
ExampleWordSize == 8
\* const MEMORY_CAPACITY = 4 * WORD_SIZE
ExampleCapacity == 4 * ExampleWordSize
\* for (let i = 0; i < 5; i++) mainMemory.tick()
ExampleCycles == 5
\* cyclesToFind is kept up to two revolutions of the line
MaxFind == 2 * ExampleCapacity

ExampleWord == <<1, 0, 1, 1, 0, 1, 0, 1>>

ExampleInit ==
    /\ \E word \in [1..ExampleWordSize -> Bit] :
          sim = [mode |-> "example", at |-> "write", wordToWrite |-> word, i |-> 0,
                 readWord |-> <<>>, cyclesToFind |-> 0]
    /\ kind = "null"
    /\ line = NullDelayLineMemory(ExampleCapacity)
    /\ obs = <<>> /\ cpu = <<>> /\ hist = <<>>

\* mainMemory.write(wordToWrite[i]); mainMemory.tick()
ExWrite ==
    /\ sim.mode = "example"
    /\ sim.at = "write"
    /\ line' = nullTick(write(line, sim.wordToWrite[sim.i + 1]))
    /\ sim' = IF sim.i + 1 = Len(sim.wordToWrite)
              THEN [sim EXCEPT !.at = "circulate", !.i = 0]
              ELSE [sim EXCEPT !.i = @ + 1]
    /\ UNCHANGED <<kind, obs, cpu, hist>>

\* one of the five pulses that let the memory circulate
ExCirculate ==
    /\ sim.mode = "example"
    /\ sim.at = "circulate"
    /\ line' = nullTick(line)
    /\ sim' = IF sim.i + 1 = ExampleCycles
              THEN [sim EXCEPT !.at = "search", !.i = 0]
              ELSE [sim EXCEPT !.i = @ + 1]
    /\ UNCHANGED <<kind, obs, cpu, hist>>

\* while (mainMemory.peekReadHead() !== 1) { mainMemory.tick(); cyclesToFind++; }
ExSearch ==
    /\ sim.mode = "example"
    /\ sim.at = "search"
    /\ HeadBit(line) # 1
    /\ line' = nullTick(line)
    /\ sim' = [sim EXCEPT !.cyclesToFind = IF @ < MaxFind THEN @ + 1 ELSE @]
    /\ UNCHANGED <<kind, obs, cpu, hist>>

\* the loop ends: the head shows 1
ExFound ==
    /\ sim.mode = "example"
    /\ sim.at = "search"
    /\ HeadBit(line) = 1
    /\ sim' = [sim EXCEPT !.at = "read"]
    /\ UNCHANGED <<line, kind, obs, cpu, hist>>

\* readWord.push(mainMemory.tick())
ExRead ==
    /\ sim.mode = "example"
    /\ sim.at = "read"
    /\ line' = nullTick(line)
    /\ sim' = [sim EXCEPT !.readWord = Append(@, HeadBit(line)),
                          !.i = @ + 1,
                          !.at = IF sim.i + 1 = ExampleWordSize THEN "done" ELSE "read"]
    /\ UNCHANGED <<kind, obs, cpu, hist>>

ExampleNext ==
    \/ ExWrite
    \/ ExCirculate
    \/ ExSearch
    \/ ExFound
    \/ ExRead

SpecExample == ExampleInit /\ [][ExampleNext]_vars

\* the procedure is one sequential program: it goes on while a step is left
FairExample == SpecExample /\ WF_vars(ExampleNext)

\* the read-back is over and has returned the word written
ReadBackMatches == sim.at = "done" => sim.readWord = sim.wordToWrite

\* C40: the example read-back procedure (write a W-bit word into an empty
\* line, let it circulate, pulse until the bit at the head is 1, then read W
\* pulses) returns the written word for every W-bit word, as it does for
\* [1,0,1,1,0,1,0,1].
C40_ReadBackReturnsWord ==
    sim.mode = "example" => ReadBackMatches

\* C40: the procedure terminates for every W-bit word
C40_ReadBackTerminates ==
    <>(sim.mode = "example" /\ sim.at = "done")

\* C40 (what the code does): the read-back returns the written word exactly
\* when its first bit is 1; the search ends exactly when the word has a 1, and
\* the word read then starts at that first 1
C40_ReadBackFromFirstOne ==
    sim.mode = "example" =>
        /\ sim.at = "done" =>
              /\ (sim.readWord = sim.wordToWrite) = (sim.wordToWrite[1] = 1)
              /\ sim.readWord[1] = 1
        /\ sim.at \in {"read", "done"} => \E k \in 1..ExampleWordSize : sim.wordToWrite[k] = 1
        /\ sim.cyclesToFind = MaxFind => sim.wordToWrite = Zeros(ExampleWordSize)

\* C40 failing run: the word 0,1,1,0,1,0,1,1 was written and the read-back
\* has returned 1,1,0,1,0,1,1 followed by an empty cell
C40_Witness ==
    /\ sim.mode = "example"
    /\ sim.at = "done"
    /\ sim.wordToWrite = <<0, 1, 1, 0, 1, 0, 1, 1>>
    /\ sim.readWord = <<1, 1, 0, 1, 0, 1, 1, NULL>>

\* C40 failing run: the word of zeros was written and the search has gone
\* round the line twice without a 1 at the head
C40_SearchGoesOn ==
    /\ sim.mode = "example"
    /\ sim.at = "search"
    /\ sim.wordToWrite = Zeros(ExampleWordSize)
    /\ sim.cyclesToFind = MaxFind
    /\ \A k \in 1..ExampleCapacity : line.mem[k] # 1

\* C40 run that agrees: the word of the example is read back as written
C40_ExampleReached ==
    /\ sim.mode = "example"
    /\ sim.at = "done"
    /\ sim.wordToWrite = ExampleWord
    /\ sim.readWord = ExampleWord

====
